---- MODULE Spec2Model ----
(***************************************************************************)
(* A model of the image-to-music backend: the image buffer service with    *)
(* its scene-change detector, the music-generation client with its poll    *)
(* loop, the music store, the vision adapter, and the two orchestrators    *)
(* (the HTTP route and the socket frame handler) that drive them; and the   *)
(* smart-glasses app: its photo capture loop and its managed stream with    *)
(* the frame-extraction timers.                                             *)
(***************************************************************************)
EXTENDS Integers, Sequences, FiniteSets, TLC

VARIABLES
    now,        \* the wall clock in ms (new Date() / Date.now())
    buffer,     \* ImageBufferService.buffer: the Map, as its entries in insertion order
    pending,    \* addImage calls suspended at their awaits (timestamp and hash taken)
    nAdds,      \* number of addImage calls made so far
    had,        \* the devices that have had a record in the buffer
    last,       \* what the most recent buffer-service call returned or did
    remote,     \* the clips as the music service holds them, by clip id
    wait,       \* a waitForCompletion call: its position, locals and result
    lookup,     \* a getClips call: its position, the ids asked for and its result
    musicCache, \* MusicStorageService.musicCache: the Map, as its values in insertion order
    storeLast,  \* the most recent call of the music store
    sent,       \* number of requests made to the music service's /generate
    gen,        \* the most recent generateMusic call: its request and outcome
    vision,     \* generateMusicFromImage: the call in progress and its result
    http,       \* the POST /api/scene/analyze requests, each at its await
    sessions,   \* ImageStreamSocketServer.sessions: device id -> session object
    sessionObjs,     \* the StreamingSession objects ever created
    processingQueue, \* ImageStreamSocketServer.processingQueue: device id -> flag
    frames,     \* the image-frame events, each with the run it started
    capture,    \* the glasses' photoCaptureLoop of each session
    latestMusicData, \* MyMentraOSApp.latestMusicData
    stream      \* the glasses' managed stream of each user, with its timers

bufVars == <<buffer, pending, nAdds, had, last>>
waitVars == <<remote, wait>>
storeVars == <<musicCache, storeLast>>
genVars == <<sent, gen>>
visionVars == <<vision>>
lookupVars == <<lookup>>
pipeVars == <<http, sessions, sessionObjs, processingQueue, frames>>
glassVars == <<capture, latestMusicData, stream>>
vars == <<now, bufVars, waitVars, storeVars, genVars, visionVars, lookupVars, pipeVars,
          glassVars>>

(* what the actions of one component leave alone *)
NotBuf == <<waitVars, storeVars, genVars, visionVars, lookupVars, pipeVars, glassVars>>
NotWait == <<bufVars, storeVars, genVars, visionVars, lookupVars, pipeVars, glassVars>>
NotStore == <<bufVars, waitVars, genVars, visionVars, lookupVars, pipeVars, glassVars>>
NotGen == <<bufVars, waitVars, storeVars, visionVars, lookupVars, pipeVars, glassVars>>
NotVision == <<bufVars, waitVars, storeVars, genVars, lookupVars, pipeVars, glassVars>>
NotLookup == <<bufVars, wait, storeVars, genVars, visionVars, pipeVars, glassVars>>

(* what the two orchestrators never touch: the state of the components'     *)
(* own drivers                                                              *)
NotPipe == <<pending, nAdds, had, last, wait, lookup, storeLast, gen, vision, glassVars>>

(* what the glasses app never touches: the backend *)
NotGlasses == <<bufVars, waitVars, storeVars, genVars, visionVars, lookupVars, pipeVars>>

----------------------------------------------------------------------------
(* Bounds of the model *)

MaxTime == 1
MaxAdds == 3
MaxPending == 2
MaxRequests == 3
MaxAnalyses == 3
MaxHttp == 2
MaxFrames == 2
MaxSessions == 2
MaxPolls == 2
MaxFramePolls == 1
MaxPhotos == 2
MaxStarts == 2
MaxStops == 2
MaxExtracts == 2

(* ImageBufferService.maxBufferSize (default 20, a constructor parameter)   *)
maxBufferSize == 2

Devices == {"d1", "d2"}

----------------------------------------------------------------------------
(* Byte buffers.  A payload is what the bytes decode to: whether sharp can  *)
(* decode them at all, the encoding/metadata variant of the file, and the   *)
(* picture.  Two payloads with the same picture and different variants are  *)
(* different byte strings of the same image; variant 0 is the encoding      *)
(* processImage writes, variant 1 the file as a device uploads it.          *)

Scenes == 0 .. 2

Payload(dec, meta, pix) == [dec |-> dec, meta |-> meta, pix |-> pix]

Payloads ==
    { Payload(TRUE, 1, 0), Payload(TRUE, 1, 2), Payload(FALSE, 0, 0) }

(* the calls of addImage: a payload, and whether ProcessingOptions are      *)
(* given (the route and the socket handler always give them)                *)
AddInputs ==
    { <<p, TRUE>> : p \in Payloads } \cup { <<Payload(TRUE, 1, 0), FALSE>> }

(* the raw bytes sharp(buffer).resize(64, 64).raw() yields for a picture    *)
RawData(pix) ==
    CASE pix = 0 -> <<0, 0, 0, 0, 0, 10, 10, 10, 10, 10>>
      [] pix = 1 -> <<0, 0, 0, 0, 0, 10, 10, 10, 10, 200>>
      [] OTHER   -> <<200, 200, 200, 200, 200, 30, 30, 30, 30, 30>>

(* processImage: resize and re-encode as jpeg; the output is a canonical    *)
(* encoding of the picture, whatever variant the input was                  *)
processImage(buf) == Payload(TRUE, 0, buf.pix)

(* createHash('md5').update(buffer).digest('hex'): a digest, as a sequence  *)
(* of digits, distinct for distinct byte strings                            *)
generateImageHash(buf) == <<buf.pix, buf.meta, IF buf.dec THEN 1 ELSE 0>>

(* hash.substring(0, 8) *)
HashPrefix(hash) == SubSeq(hash, 1, 2)

(* `${deviceId}_${timestamp}_${hash.substring(0, 8)}` *)
MakeId(deviceId, timestamp, hash) == <<deviceId, timestamp, HashPrefix(hash)>>

----------------------------------------------------------------------------
(* The Map operations on the entry sequence *)

HasId(buf, id) == \E i \in 1 .. Len(buf) : buf[i].id = id

(* Map.set: an existing key keeps its place, a new key goes last *)
MapSet(buf, rec) ==
    IF HasId(buf, rec.id)
    THEN [i \in 1 .. Len(buf) |-> IF buf[i].id = rec.id THEN rec ELSE buf[i]]
    ELSE Append(buf, rec)

RECURSIVE SelectSeqBy(_, _)
SelectSeqBy(s, keep) ==
    IF s = <<>> THEN <<>>
    ELSE IF Head(s).id \in keep THEN <<Head(s)>> \o SelectSeqBy(Tail(s), keep)
    ELSE SelectSeqBy(Tail(s), keep)

RECURSIVE InsertAsc(_, _)
InsertAsc(s, e) ==
    IF s = <<>> THEN <<e>>
    ELSE IF e.timestamp < Head(s).timestamp THEN <<e>> \o s
    ELSE <<Head(s)>> \o InsertAsc(Tail(s), e)

(* Array.sort((a, b) => time(a) - time(b)): ascending, stable *)
RECURSIVE SortAsc(_)
SortAsc(s) ==
    IF s = <<>> THEN <<>>
    ELSE InsertAsc(SortAsc(SubSeq(s, 1, Len(s) - 1)), s[Len(s)])

RECURSIVE InsertDesc(_, _)
InsertDesc(s, e) ==
    IF s = <<>> THEN <<e>>
    ELSE IF e.timestamp > Head(s).timestamp THEN <<e>> \o s
    ELSE <<Head(s)>> \o InsertDesc(Tail(s), e)

(* Array.sort((a, b) => time(b) - time(a)): descending, stable *)
RECURSIVE SortDesc(_)
SortDesc(s) ==
    IF s = <<>> THEN <<>>
    ELSE InsertDesc(SortDesc(SubSeq(s, 1, Len(s) - 1)), s[Len(s)])

Ids(s) == { s[i].id : i \in 1 .. Len(s) }
Recs(s) == { s[i] : i \in 1 .. Len(s) }

Min(a, b) == IF a < b THEN a ELSE b
Max(a, b) == IF a > b THEN a ELSE b

----------------------------------------------------------------------------
(* ImageBufferService *)

maintainBufferSize_OffByOne(buf) ==
    IF Len(buf) <= maxBufferSize + 1 THEN buf
    ELSE LET toRemove == SubSeq(SortAsc(buf), 1, Len(buf) - maxBufferSize - 1)
         IN  SelectSeqBy(buf, Ids(buf) \ Ids(toRemove))

maintainBufferSize_Newest(buf) ==
    IF Len(buf) <= maxBufferSize THEN buf
    ELSE LET toRemove == SubSeq(SortDesc(buf), 1, Len(buf) - maxBufferSize)
         IN  SelectSeqBy(buf, Ids(buf) \ Ids(toRemove))

maintainBufferSize(buf) ==
    IF Len(buf) <= maxBufferSize THEN buf
    ELSE LET toRemove == SubSeq(SortAsc(buf), 1, Len(buf) - maxBufferSize)
         IN  SelectSeqBy(buf, Ids(buf) \ Ids(toRemove))

(* addImage up to its first await: the timestamp, the hash and the id *)
AddCall(deviceId, input, options) ==
    [deviceId |-> deviceId, timestamp |-> now,
     hash |-> generateImageHash(input), input |-> input, options |-> options]

AddThrows_Never(call) == FALSE

(* whether processImage or sharp(...).metadata() throws *)
AddThrows(call) == ~call.input.dec

(* the BufferedImage addImage builds *)
AddRecord(call) ==
    [id |-> MakeId(call.deviceId, call.timestamp, call.hash),
     deviceId |-> call.deviceId,
     timestamp |-> call.timestamp,
     hash |-> call.hash,
     buffer |-> IF call.options THEN processImage(call.input) ELSE call.input]

(* this.buffer.set(id, bufferedImage); this.maintainBufferSize() *)
AddToBuffer(buf, rec) == maintainBufferSize(MapSet(buf, rec))

OfDevice(buf, deviceId) == SelectSeq(buf, LAMBDA r : r.deviceId = deviceId)

getRecentImages(buf, deviceId, limit) ==
    SubSeq(SortDesc(OfDevice(buf, deviceId)), 1,
           Min(limit, Len(OfDevice(buf, deviceId))))

clearDevice_All(buf, deviceId) == <<>>

clearDevice(buf, deviceId) == SelectSeq(buf, LAMBDA r : r.deviceId # deviceId)

----------------------------------------------------------------------------
(* The scene-change detector.  Thresholds are in tenths: 3 is 0.3.          *)

DefaultThreshold == 3

Buckets == 0 .. 255

(* getImageHistogram: histogram[data[i]]++ over the raw bytes *)
HistogramOf(data) ==
    [b \in Buckets |-> Cardinality({ i \in 1 .. Len(data) : data[i] = b })]

HistTable == [pix \in Scenes |-> HistogramOf(RawData(pix))]

getImageHistogram(buf) == HistTable[buf.pix]

(* the loop's two sums over buckets lo .. hi, added up by halves *)
RECURSIVE SumMin(_, _, _, _)
SumMin(h1, h2, lo, hi) ==
    IF lo > hi THEN 0
    ELSE IF lo = hi THEN Min(h1[lo], h2[lo])
    ELSE LET mid == (lo + hi) \div 2
         IN  SumMin(h1, h2, lo, mid) + SumMin(h1, h2, mid + 1, hi)

RECURSIVE SumMax(_, _, _, _)
SumMax(h1, h2, lo, hi) ==
    IF lo > hi THEN 0
    ELSE IF lo = hi THEN Max(h1[lo], h2[lo])
    ELSE LET mid == (lo + hi) \div 2
         IN  SumMax(h1, h2, lo, mid) + SumMax(h1, h2, mid + 1, hi)

compareHistograms_OffByOne(hist1, hist2) ==
    LET intersection == SumMin(hist1, hist2, 1, 255)
        union == SumMax(hist1, hist2, 0, 255)
    IN  IF union = 0 THEN <<0, 1>> ELSE <<intersection, union>>

(* compareHistograms: the similarity as the fraction <<numerator,           *)
(* denominator>>; 0 (as 0/1) when the union is 0                            *)
compareHistograms(hist1, hist2) ==
    LET intersection == SumMin(hist1, hist2, 0, 255)
        union == SumMax(hist1, hist2, 0, 255)
    IN  IF union = 0 THEN <<0, 1>> ELSE <<intersection, union>>

SimTable ==
    [p \in Scenes, q \in Scenes |-> compareHistograms(HistTable[p], HistTable[q])]

(* the similarity detectSceneChange computes for two stored buffers *)
Similarity(current, previous) == SimTable[current.pix, previous.pix]

(* the thresholds, in tenths, for which the double 1 - threshold lies above *)
(* the double that a quotient equal to 1 - threshold rounds to: 1 - 0.7 is  *)
(* 0.30000000000000004 and 3 / 10 is 0.3; for every other threshold of      *)
(* -0.1 .. 1.1 the two doubles are equal or the first is the smaller        *)
RoundedUp == {7}

Below_OrEqual(sim, threshold) == sim[1] * 10 <= sim[2] * (10 - threshold)

(* similarity < (1 - threshold) in doubles, the threshold in tenths: as the *)
(* fractions compare, a tie falling as the two doubles do                   *)
Below(sim, threshold) ==
    \/ sim[1] * 10 < sim[2] * (10 - threshold)
    \/ sim[1] * 10 = sim[2] * (10 - threshold) /\ threshold \in RoundedUp

detectSceneChange_NoHistory(buf, deviceId, threshold, fails) ==
    LET recent == getRecentImages(buf, deviceId, 2)
    IN  IF Len(recent) < 1 THEN TRUE
        ELSE IF fails THEN TRUE
        ELSE Below(Similarity(recent[1].buffer, recent[Len(recent)].buffer),
                   threshold)

detectSceneChange_FailClosed(buf, deviceId, threshold, fails) ==
    LET recent == getRecentImages(buf, deviceId, 2)
    IN  IF Len(recent) < 2 THEN TRUE
        ELSE IF fails THEN FALSE
        ELSE Below(Similarity(recent[1].buffer, recent[2].buffer), threshold)

(* detectSceneChange; fails: getImageHistogram throws (the catch returns    *)
(* true)                                                                    *)
detectSceneChange(buf, deviceId, threshold, fails) ==
    LET recent == getRecentImages(buf, deviceId, 2)
    IN  IF Len(recent) < 2 THEN TRUE
        ELSE IF fails THEN TRUE
        ELSE Below(Similarity(recent[1].buffer, recent[2].buffer), threshold)

(* the raw byte strings histograms are taken of: none at all, the pictures' *)
(* bytes, and runs of one byte value at either end of the buckets           *)
RunLengths == {3, 7, 10}

HistData ==
    {<<>>} \cup { RawData(pix) : pix \in Scenes }
           \cup { [i \in 1 .. n |-> b] : n \in RunLengths, b \in {0, 255} }

HistInputs == { HistogramOf(data) : data \in HistData }

----------------------------------------------------------------------------
(* SunoHackMITAPI: status lookup and the completion poll loop *)

(* clip ids, in the order the service hands them out *)
ClipIds == 1 .. MaxRequests

Statuses == {"submitted", "queued", "generating", "complete", "error"}

(* SunoClip, the fields the poll loop and its callers read *)
Clip(id, status, audio_url) ==
    [id |-> id, status |-> status, audio_url |-> audio_url,
     error_message |-> IF status = "error" THEN "remote failure" ELSE "none"]

NoClip == [id |-> 0, status |-> "none", audio_url |-> "none", error_message |-> "none"]

NoRemote == [c \in ClipIds |-> NoClip]

(* the id the service gives the next clip it creates *)
NextClipId(clips) == Cardinality({ c \in ClipIds : clips[c] # NoClip }) + 1

(* what the service may turn a clip into: a later status, and the audio    *)
(* URL appears while the clip is generating or when it completes; a clip    *)
(* in error comes with an error_message or without one                      *)
LaterClips(clip) ==
    LET later == CASE clip.status = "submitted"  -> {"queued", "generating", "complete", "error"}
                   [] clip.status = "queued"     -> {"generating", "complete", "error"}
                   [] clip.status = "generating" -> {"complete", "error"}
                   [] OTHER                      -> {}
    IN  { Clip(clip.id, s, IF s = "complete" THEN "url" ELSE clip.audio_url) : s \in later }
          \cup (IF "generating" \in later \cup {clip.status} /\ clip.audio_url = "none"
                THEN {Clip(clip.id, "generating", "url")} ELSE {})
          \cup (IF later # {}
                THEN {[Clip(clip.id, "error", clip.audio_url) EXCEPT !.error_message = "none"]}
                ELSE {})

(* `Generation failed: ${clip.error_message || 'Unknown error'}` *)
GenerationFailed(clip) ==
    "Generation failed: " \o
        (IF clip.error_message # "none" THEN clip.error_message ELSE "Unknown error")

(* what getClip(clipId) yields: the clip found in the response, or a throw  *)
(* ("not found" when the response lacks the id, "request" when makeRequest  *)
(* throws)                                                                  *)
GetClipOutcomes(clipId) ==
    {[kind |-> "request", clip |-> NoClip]}
      \cup (IF clipId \in ClipIds /\ remote[clipId] # NoClip
            THEN {[kind |-> "clip", clip |-> remote[clipId]]}
            ELSE {[kind |-> "notFound", clip |-> NoClip]})

(* the id lists getClips is called with: none, one or two ids *)
ClipIdLists ==
    {<<>>} \cup { <<a>> : a \in ClipIds }
           \cup { <<p[1], p[2]>> : p \in { q \in ClipIds \X ClipIds : q[1] # q[2] } }

NoLookup == [pc |-> "idle", clipIds |-> <<>>, clips |-> <<>>, error |-> "none"]

(* what makeRequest('/clips?ids=...') may come back with: the clips the     *)
(* service holds among those asked for, in the order asked, or a failure    *)
ClipsResponses(clipIds) ==
    {[error |-> "none",
      clips |-> SelectSeqBy([i \in 1 .. Len(clipIds) |-> remote[clipIds[i]]], ClipIds)],
     [error |-> "Suno API request failed", clips |-> <<>>]}

(* getClips once makeRequest has settled: its result is handed on as it is *)
getClips(call, outcome) ==
    IF outcome.error # "none"
    THEN [call EXCEPT !.pc = "threw", !.error = outcome.error]
    ELSE [call EXCEPT !.pc = "returned", !.clips = outcome.clips]

NoWait ==
    [pc |-> "idle", clipId |-> 0, startTime |-> 0, timeoutMs |-> 0,
     pollIntervalMs |-> 0, polls |-> 0, observed |-> {}, clip |-> NoClip,
     error |-> "none"]

WaitLoop_NoDeadline(w, t) == [w EXCEPT !.pc = "polling", !.polls = @ + 1]

(* the while condition, evaluated at time t: poll again or throw Timeout *)
WaitLoop(w, t) ==
    IF t - w.startTime < w.timeoutMs
    THEN [w EXCEPT !.pc = "polling", !.polls = @ + 1]
    ELSE [w EXCEPT !.pc = "timeout", !.error = "Timeout waiting for clip"]

(* waitForCompletion(clipId, timeoutMs, pollIntervalMs) called at time t *)
WaitCall(clipId, timeoutMs, pollIntervalMs, t) ==
    WaitLoop([NoWait EXCEPT !.clipId = clipId, !.startTime = t,
                            !.timeoutMs = timeoutMs,
                            !.pollIntervalMs = pollIntervalMs], t)

WaitPolled_SleepsOnError(w, got) ==
    LET seen == [w EXCEPT !.observed = @ \cup
                   {IF got.kind = "clip" THEN got.clip.status ELSE got.kind}]
    IN  IF got.kind # "clip"
        THEN [seen EXCEPT !.pc = "threw", !.error = got.kind]
        ELSE IF got.clip.status = "complete"
        THEN [seen EXCEPT !.pc = "returned", !.clip = got.clip]
        ELSE [seen EXCEPT !.pc = "sleeping"]

WaitPolled_ReturnsError(w, got) ==
    LET seen == [w EXCEPT !.observed = @ \cup
                   {IF got.kind = "clip" THEN got.clip.status ELSE got.kind}]
    IN  IF got.kind # "clip"
        THEN [seen EXCEPT !.pc = "threw", !.error = got.kind]
        ELSE IF got.clip.status \in {"complete", "error"}
        THEN [seen EXCEPT !.pc = "returned", !.clip = got.clip]
        ELSE [seen EXCEPT !.pc = "sleeping"]

(* the loop body once await getClip(clipId) is over *)
WaitPolled(w, got) ==
    LET seen == [w EXCEPT !.observed = @ \cup
                   {IF got.kind = "clip" THEN got.clip.status ELSE got.kind}]
    IN  IF got.kind # "clip"
        THEN [seen EXCEPT !.pc = "threw", !.error = got.kind]
        ELSE IF got.clip.status = "complete"
        THEN [seen EXCEPT !.pc = "returned", !.clip = got.clip]
        ELSE IF got.clip.status = "error"
        THEN [seen EXCEPT !.pc = "failed", !.error = GenerationFailed(got.clip)]
        ELSE [seen EXCEPT !.pc = "sleeping"]

WaitDone(w) == w.pc \in {"returned", "failed", "timeout", "threw"}

(* the calls of the poll loop that are tried, and the delays of the network *)
(* and of setTimeout beyond the interval asked for, in ms                   *)
WaitTimeouts == {0, 25, 50}
PollIntervals == {10, 20}
Latencies == {0, 5}
Lateness == {0, 2}

----------------------------------------------------------------------------
(* SunoHackMITAPI.generateMusic.  A string is modelled by whether it is     *)
(* given at all and by its length.                                          *)

Str(len) == [given |-> TRUE, len |-> len]
Undefined == [given |-> FALSE, len |-> 0]

(* JavaScript truthiness of an optional string *)
Truthy(str) == str.given /\ str.len > 0

MaxTopicLength == 500
MaxTagsLength == 100

Strings == {Undefined} \cup { Str(n) : n \in {0, 100, 101, 500, 501} }

(* SunoGenerateRequest *)
Requests == [topic : Strings, tags : Strings]

NoGen ==
    [pc |-> "idle", request |-> [topic |-> Undefined, tags |-> Undefined],
     sentBefore |-> 0, error |-> "none", clip |-> NoClip]

GenerateCheck_NoTagsCheck(request) ==
    IF Truthy(request.topic) /\ request.topic.len > MaxTopicLength
    THEN "Topic must be 500 characters or less"
    ELSE "ok"

(* the two guards at the head of generateMusic *)
GenerateCheck(request) ==
    IF Truthy(request.topic) /\ request.topic.len > MaxTopicLength
    THEN "Topic must be 500 characters or less"
    ELSE IF Truthy(request.tags) /\ request.tags.len > MaxTagsLength
    THEN "Tags must be 100 characters or less"
    ELSE "ok"

(* what makeRequest('/generate') may come back with *)
GenerateOutcomes(request) ==
    {[error |-> "none", clip |-> Clip(NextClipId(remote), "submitted", "none")],
     [error |-> "Suno API request failed", clip |-> NoClip]}

----------------------------------------------------------------------------
(* ClaudeService.  A text is its characters and its length.                 *)

Text(text, len) == [text |-> text, len |-> len]

(* what response.data.content[0].text can be: JSON with the three fields,   *)
(* JSON lacking one, or prose                                               *)
VisionBodies ==
    { [raw |-> Text("{prompt, makeInstrumental, sceneDescription}", 120),
       json |-> TRUE, complete |-> TRUE,
       prompt |-> Text("Smooth Jazz, Cozy, Medium Tempo, Piano", 38),
       makeInstrumental |-> FALSE, sceneDescription |-> "social coffee shop setting"],
      [raw |-> Text("{long prompt, makeInstrumental, sceneDescription}", 200),
       json |-> TRUE, complete |-> TRUE,
       prompt |-> Text("long cinematic prompt", 120),
       makeInstrumental |-> TRUE, sceneDescription |-> "wide mountain landscape"],
      [raw |-> Text("{\"prompt\": \"Rock anthem\"}", 25),
       json |-> TRUE, complete |-> FALSE,
       prompt |-> Text("Rock anthem", 11),
       makeInstrumental |-> FALSE, sceneDescription |-> ""],
      [raw |-> Text("Ambient  Classical piano", 24),
       json |-> FALSE, complete |-> FALSE, prompt |-> Text("", 0),
       makeInstrumental |-> FALSE, sceneDescription |-> ""],
      [raw |-> Text("drums and bass", 14),
       json |-> FALSE, complete |-> FALSE, prompt |-> Text("", 0),
       makeInstrumental |-> FALSE, sceneDescription |-> ""] }

(* what axios.post settles with: a rejection, or a response whose content   *)
(* array is empty or holds one text block                                   *)
VisionOutcomes ==
    { [kind |-> "error", error |-> e, content |-> <<>>] :
          e \in {"network error", "status 529"} }
      \cup {[kind |-> "ok", error |-> "none", content |-> <<>>]}
      \cup { [kind |-> "ok", error |-> "none", content |-> <<b>>] : b \in VisionBodies }

(* cleanMusicPrompt: quotes, newlines and runs of blanks go, lower case *)
cleanMusicPrompt(rawPrompt) ==
    CASE rawPrompt.text = "Smooth Jazz, Cozy, Medium Tempo, Piano" ->
             Text("smooth jazz, cozy, medium tempo, piano", 38)
      [] rawPrompt.text = "{\"prompt\": \"Rock anthem\"}" ->
             Text("{\"prompt\": \"rock anthem\"}", 25)
      [] rawPrompt.text = "Ambient  Classical piano" ->
             Text("ambient classical piano", 23)
      [] OTHER -> rawPrompt

TextsWithInstrumentalKeyword == {"ambient classical piano"}
TextsWithVocalKeyword == {"{\"prompt\": \"rock anthem\"}"}

(* inferInstrumental: the texts that hold a keyword of either list *)
inferInstrumental(prompt) ==
    prompt.text \in TextsWithInstrumentalKeyword
        \/ ~(prompt.text \in TextsWithVocalKeyword)

parseClaudeResponse(body) ==
    IF body.json /\ body.complete
    THEN [prompt |-> cleanMusicPrompt(body.prompt),
          makeInstrumental |-> body.makeInstrumental,
          sceneDescription |-> body.sceneDescription]
    ELSE LET cleanPrompt == cleanMusicPrompt(body.raw)
         IN  [prompt |-> cleanPrompt,
              makeInstrumental |-> inferInstrumental(cleanPrompt),
              sceneDescription |-> "Parsed from text response"]

fallbacks ==
    << [prompt |-> Text("ambient instrumental, calm, medium tempo, soft piano", 52),
        makeInstrumental |-> TRUE,
        sceneDescription |-> "Fallback - peaceful ambient setting"],
       [prompt |-> Text("smooth jazz, relaxed, slow tempo, piano and light drums", 55),
        makeInstrumental |-> FALSE,
        sceneDescription |-> "Fallback - social jazz setting"],
       [prompt |-> Text("acoustic folk, peaceful, medium tempo, guitar and strings", 57),
        makeInstrumental |-> TRUE,
        sceneDescription |-> "Fallback - natural peaceful setting"],
       [prompt |-> Text("minimal electronic, focused, medium tempo, soft synths", 54),
        makeInstrumental |-> TRUE,
        sceneDescription |-> "Fallback - work/focus environment"] >>

(* Math.floor(Math.random() * fallbacks.length) *)
RandomIndices == 0 .. Len(fallbacks) - 1

getFallbackPrompt(rnd) == fallbacks[rnd + 1]

(* the try block throws: the request was rejected, or content[0] is missing *)
VisionThrows(outcome) == outcome.kind = "error" \/ outcome.content = <<>>

(* MusicPromptResult; the confidence is in hundredths *)
PromptResult(parsed, confidence, processingTime) ==
    [kind |-> "result", prompt |-> parsed.prompt,
     sceneDescription |-> parsed.sceneDescription,
     makeInstrumental |-> parsed.makeInstrumental,
     confidence |-> confidence, processingTime |-> processingTime]

generateMusicFromImage_Rethrows(outcome, rnd, processingTime) ==
    IF VisionThrows(outcome)
    THEN [kind |-> "threw", prompt |-> Text("", 0), sceneDescription |-> "",
          makeInstrumental |-> FALSE, confidence |-> 0,
          processingTime |-> processingTime]
    ELSE PromptResult(parseClaudeResponse(outcome.content[1]), 85, processingTime)

(* generateMusicFromImage once axios.post has settled *)
generateMusicFromImage(outcome, rnd, processingTime) ==
    IF VisionThrows(outcome)
    THEN PromptResult(getFallbackPrompt(rnd), 10, processingTime)
    ELSE PromptResult(parseClaudeResponse(outcome.content[1]), 85, processingTime)

NoVision ==
    [pc |-> "idle", calls |-> 0, startTime |-> 0,
     outcome |-> [kind |-> "none", error |-> "none", content |-> <<>>],
     result |-> [kind |-> "none"]]

----------------------------------------------------------------------------
(* MusicStorageService *)

(* MusicStorageService.maxCacheSize (default 100, a constructor parameter)  *)
maxCacheSize == 2

StoreDevices == {"d1", "d2", "d3"}

(* the timestamps a caller may put in an entry *)
Stamps == 0 .. 2

(* StoredMusicData without its deviceId: what storeMusic is handed *)
MusicEntries == [musicUrl : {"u1", "u2"}, timestamp : Stamps]

Null == [null |-> TRUE]

CacheHas(cache, deviceId) == \E i \in 1 .. Len(cache) : cache[i].deviceId = deviceId

CacheSet_Appends(cache, deviceId, data) == Append(cache, data)

(* Map.set on the cache: an existing key keeps its place, a new one goes last *)
CacheSet(cache, deviceId, data) ==
    IF CacheHas(cache, deviceId)
    THEN [i \in 1 .. Len(cache) |->
             IF cache[i].deviceId = deviceId THEN data ELSE cache[i]]
    ELSE Append(cache, data)

RECURSIVE CacheDelete(_, _)
CacheDelete(cache, keys) ==
    IF cache = <<>> THEN <<>>
    ELSE IF Head(cache).deviceId \in keys THEN CacheDelete(Tail(cache), keys)
    ELSE <<Head(cache)>> \o CacheDelete(Tail(cache), keys)

maintainCacheSize_Newest(cache) ==
    IF Len(cache) <= maxCacheSize THEN cache
    ELSE LET toRemove == SubSeq(SortDesc(cache), 1, Len(cache) - maxCacheSize)
         IN  CacheDelete(cache, { toRemove[i].deviceId : i \in 1 .. Len(toRemove) })

maintainCacheSize(cache) ==
    IF Len(cache) <= maxCacheSize THEN cache
    ELSE LET toRemove == SubSeq(SortAsc(cache), 1, Len(cache) - maxCacheSize)
         IN  CacheDelete(cache, { toRemove[i].deviceId : i \in 1 .. Len(toRemove) })

(* { ...musicData, deviceId } *)
WithDevice(musicData, deviceId) == [deviceId |-> deviceId] @@ musicData

storeMusic(cache, deviceId, musicData) ==
    maintainCacheSize(CacheSet(cache, deviceId, WithDevice(musicData, deviceId)))

getLatestMusic(cache, deviceId) ==
    IF CacheHas(cache, deviceId)
    THEN cache[CHOOSE i \in 1 .. Len(cache) : cache[i].deviceId = deviceId]
    ELSE Null

clearMusic(cache, deviceId) == CacheDelete(cache, {deviceId})

(* the entries the loop of maintainCacheSize deletes during a storeMusic *)
CacheEvicted(cache, deviceId, musicData) ==
    LET set == CacheSet(cache, deviceId, WithDevice(musicData, deviceId))
        kept == storeMusic(cache, deviceId, musicData)
    IN  { set[i] : i \in 1 .. Len(set) } \ { kept[i] : i \in 1 .. Len(kept) }

----------------------------------------------------------------------------
(* The two orchestrators: the POST /api/scene/analyze route and the socket  *)
(* server.  What they share is a run: analyze, submit, await.               *)

HttpIds == 1 .. MaxHttp
FrameIds == 1 .. MaxFrames
SessionIds == 1 .. MaxSessions

NoResult == [kind |-> "none"]

NoAdd ==
    [deviceId |-> "", timestamp |-> 0, hash |-> <<>>,
     input |-> Payload(FALSE, 0, 0), options |-> FALSE]

NoRun ==
    [pc |-> "none", startTime |-> 0, claude |-> NoResult,
     make_instrumental |-> FALSE, wait |-> NoWait, error |-> "none"]

NoResponse == [code |-> 0, kind |-> "none"]

NoHttp ==
    [pc |-> "free", deviceId |-> "", call |-> NoAdd, imageId |-> <<>>,
     recent |-> <<>>, detectFailed |-> FALSE, sceneChanged |-> "none",
     run |-> NoRun, response |-> NoResponse]

NoSession ==
    [deviceId |-> "", isActive |-> FALSE, frameCount |-> 0,
     lastProcessed |-> [set |-> FALSE, at |-> 0]]

NoFrame ==
    [pc |-> "free", deviceId |-> "", session |-> 0, flagAtArrival |-> FALSE,
     call |-> NoAdd, imageId |-> <<>>, recent |-> <<>>, gate |-> FALSE,
     shouldProcess |-> FALSE, run |-> NoRun]

(* what the route is sent: a device id (or none), an image (or none) *)
HttpInputs ==
    { [deviceId |-> d, hasImage |-> TRUE, image |-> p] : d \in Devices, p \in Payloads }
      \cup {[deviceId |-> "", hasImage |-> TRUE, image |-> Payload(TRUE, 1, 0)],
            [deviceId |-> "d1", hasImage |-> FALSE, image |-> Payload(FALSE, 0, 0)]}

(* the vision outcomes the orchestrators are run against *)
RunVisionOutcomes ==
    { o \in VisionOutcomes :
         \/ o.kind = "error" /\ o.error = "network error"
         \/ o.kind = "ok" /\ o.content # <<>> /\ o.content[1].json /\ o.content[1].complete }

(* the draws of Math.random() the orchestrators are run against *)
RunRandomIndices == {0}

(* what getClip yields to a run: as GetClipOutcomes, the service having     *)
(* moved the clip on since the last poll or not                             *)
RunClipOutcomes(clipId) ==
    {[kind |-> "request", clip |-> NoClip]}
      \cup (IF clipId \in ClipIds /\ remote[clipId] # NoClip
            THEN { [kind |-> "clip", clip |-> c] :
                      c \in {remote[clipId]} \cup LaterClips(remote[clipId]) }
            ELSE {[kind |-> "notFound", clip |-> NoClip]})

(* the service's copy of the clips after it has answered a poll *)
RemoteAfter(got) ==
    IF got.kind = "clip" THEN [remote EXCEPT ![got.clip.id] = got.clip] ELSE remote

(* the locals of a run that has ended are gone; the number of polls its     *)
(* wait made is kept                                                        *)
RunEnd(run, pc) ==
    [NoRun EXCEPT !.pc = pc, !.error = run.error, !.wait.polls = run.wait.polls]

(* generateMusicWithTopic(prompt, {tags: prompt, make_instrumental}) *)
SubmitRequest(prompt) == [topic |-> Str(prompt.len), tags |-> Str(prompt.len)]

(* a run begins: generateMusicFromImage is called *)
RunStart(t) == [NoRun EXCEPT !.pc = "analyzing", !.startTime = t]

RunFail(run, error) == [NoRun EXCEPT !.pc = "failed", !.error = error]

(* the analysis is back and generateMusicWithTopic is called: the request   *)
(* is refused by its guards, or goes out                                    *)
RunAnalyzed(run, claude, instrumental) ==
    LET check == GenerateCheck(SubmitRequest(claude.prompt))
        seen == [run EXCEPT !.claude = claude, !.make_instrumental = instrumental]
    IN  IF check # "ok" THEN RunFail(seen, check)
        ELSE [seen EXCEPT !.pc = "submitting"]

(* the poll loop of a run resumes after its sleep; `expired` says whether   *)
(* the deadline has passed by then.  What the polls observed is not kept.   *)
WaitResume(w, expired) ==
    LET v == [w EXCEPT !.observed = {}]
    IN  IF v.pc = "sleeping"
        THEN WaitLoop(v, IF expired THEN v.startTime + v.timeoutMs ELSE v.startTime)
        ELSE v

AudioPolled_WaitsForComplete(w, got) == WaitPolled(w, got)

(* waitForAudioUrl, the loop body once getClip is over: the clip is         *)
(* returned as soon as it carries an audio URL                              *)
AudioPolled(w, got) ==
    LET seen == [w EXCEPT !.observed = @ \cup
                   {IF got.kind = "clip" THEN got.clip.status ELSE got.kind}]
    IN  IF got.kind # "clip"
        THEN [seen EXCEPT !.pc = "threw", !.error = got.kind]
        ELSE IF got.clip.audio_url # "none"
        THEN [seen EXCEPT !.pc = "returned", !.clip = got.clip]
        ELSE IF got.clip.status = "error"
        THEN [seen EXCEPT !.pc = "failed", !.error = GenerationFailed(got.clip)]
        ELSE [seen EXCEPT !.pc = "sleeping"]

RunInFlight(run) == run.pc \in {"analyzing", "submitting", "waiting"}

(* !this.processingQueue.get(deviceId) *)
QueueFree(queue, deviceId) == queue[deviceId] # "true"

(* shouldProcessFrame up to its await: every 10th frame, or no run has      *)
(* finished in this session, or the last one finished over 30 s ago         *)
FrameGate(session, t) ==
    \/ session.frameCount % 10 = 0
    \/ ~session.lastProcessed.set
    \/ t - session.lastProcessed.at > 30000

----------------------------------------------------------------------------
(* The glasses app, photo capture: photoCaptureLoop and uploadPhotoToAPI *)

CaptureSessions == {"s1", "s2"}

(* the delay of setTimeout(() => this.photoCaptureLoop(...), 5000), in ms *)
CaptureDelayMs == 5000

NoCapture ==
    [pc |-> "none", photos |-> 0, uploads |-> 0, lastUpload |-> "none",
     returnedAt |-> 0, dueAt |-> 0]

(* what fetch(`${backendUrl}/api/scene/analyze`) settles with *)
FetchOutcomes == {"rejected", "not ok", "ok"}

(* what response.json() settles with: a result with a music URL, one        *)
(* without, or a rejection (replaced by { status: 'received' })             *)
JsonBodies ==
    {[parsed |-> TRUE, success |-> TRUE, musicUrl |-> "u1"],
     [parsed |-> TRUE, success |-> TRUE, musicUrl |-> "none"],
     [parsed |-> FALSE, success |-> FALSE, musicUrl |-> "none"]}

UploadReturned_Rethrows(c, result, t) ==
    IF result = "failed" THEN [c EXCEPT !.pc = "ended", !.lastUpload = result]
    ELSE [c EXCEPT !.pc = "scheduled", !.uploads = @ + 1, !.lastUpload = result,
                   !.returnedAt = t, !.dueAt = t + CaptureDelayMs]

(* uploadPhotoToAPI returns at time t, its error caught or with none, and   *)
(* photoCaptureLoop sets the timer of the next capture                      *)
UploadReturned(c, result, t) ==
    [c EXCEPT !.pc = "scheduled", !.uploads = @ + 1, !.lastUpload = result,
              !.returnedAt = t, !.dueAt = t + CaptureDelayMs]

----------------------------------------------------------------------------
(* The glasses app, managed stream: the stream toggle and the timers of     *)
(* frame extraction                                                         *)

Users == {"u1", "u2"}

(* the timers startFrameExtraction creates, one per stream started *)
TimerIds == 1 .. MaxStarts

NoStream ==
    [connected |-> FALSE, sessions |-> 0, isStreamActive |-> "absent",
     starting |-> 0, stopping |-> 0, starts |-> 0, stops |-> 0,
     timers |-> [i \in TimerIds |-> "none"], mapped |-> 0,
     requests |-> 0, sentInactive |-> FALSE]

(* stopFrameExtraction: the interval the map holds is cleared and removed *)
stopFrameExtraction(st) ==
    IF st.mapped # 0
    THEN [st EXCEPT !.timers[st.mapped] = "cleared", !.mapped = 0]
    ELSE st

(* extractFrame: sendStreamInfoToBackend posts to /api/stream/frame-extract *)
extractFrame(st) ==
    [st EXCEPT !.requests = @ + 1,
               !.sentInactive = @ \/ st.isStreamActive # "true"]

(* the timers that will still fire: a pending setTimeout or a live interval *)
LiveTimers(st) == { i \in TimerIds : st.timers[i] \in {"timeout", "interval"} }

----------------------------------------------------------------------------
(* The state after construction *)

NoCall == [kind |-> "none"]

BufInit ==
    /\ buffer = <<>>
    /\ pending = {}
    /\ nAdds = 0
    /\ had = {}
    /\ last = NoCall

RestInit ==
    /\ wait = NoWait
    /\ lookup = NoLookup
    /\ musicCache = <<>>
    /\ storeLast = [kind |-> "none"]
    /\ sent = 0
    /\ gen = NoGen
    /\ vision = NoVision
    /\ http = [r \in HttpIds |-> NoHttp]
    /\ sessions = [d \in Devices |-> 0]
    /\ sessionObjs = [i \in SessionIds |-> NoSession]
    /\ processingQueue = [d \in Devices |-> "absent"]
    /\ frames = [f \in FrameIds |-> NoFrame]
    /\ capture = [s \in CaptureSessions |-> NoCapture]
    /\ latestMusicData = Null
    /\ stream = [u \in Users |-> NoStream]

Init == now = 0 /\ BufInit /\ remote = NoRemote /\ RestInit

----------------------------------------------------------------------------
(* The completion poll loop on its own: one clip has been submitted *)

InitWait ==
    /\ now = 0
    /\ BufInit
    /\ remote = [NoRemote EXCEPT ![1] = Clip(1, "submitted", "none")]
    /\ RestInit


WaitForCompletion(clipId, timeoutMs, pollIntervalMs) ==
    /\ wait.pc = "idle"
    /\ wait' = WaitCall(clipId, timeoutMs, pollIntervalMs, now)
    /\ UNCHANGED <<now, remote, NotWait>>

(* the response to getClip arrives *)
PollResponse(latency, got) ==
    /\ wait.pc = "polling"
    /\ now' = now + latency
    /\ wait' = WaitPolled(wait, got)
    /\ UNCHANGED <<remote, NotWait>>

(* setTimeout(resolve, pollIntervalMs) fires *)
PollWake(late) ==
    /\ wait.pc = "sleeping"
    /\ now' = now + wait.pollIntervalMs + late
    /\ wait' = WaitLoop(wait, now')
    /\ UNCHANGED <<remote, NotWait>>

(* the service moves the awaited clip on *)
RemoteProgress(clip) ==
    /\ wait.pc \in {"polling", "sleeping"}
    /\ wait.clipId \in ClipIds
    /\ clip \in LaterClips(remote[wait.clipId])
    /\ remote' = [remote EXCEPT ![clip.id] = clip]
    /\ UNCHANGED <<now, wait, NotWait>>

NextWait ==
    \/ \E c \in ClipIds, t \in WaitTimeouts, i \in PollIntervals :
          WaitForCompletion(c, t, i)
    \/ \E l \in Latencies : \E g \in GetClipOutcomes(wait.clipId) : PollResponse(l, g)
    \/ \E l \in Lateness : PollWake(l)
    \/ \E c \in UNION { LaterClips(remote[i]) : i \in ClipIds } : RemoteProgress(c)

SpecWait == InitWait /\ [][NextWait]_vars

(* the poll loop where every request that is out settles and every timer    *)
(* that is set fires                                                        *)
SpecWaitLive ==
    /\ SpecWait
    /\ WF_vars(\E l \in Latencies : \E g \in GetClipOutcomes(wait.clipId) : PollResponse(l, g))
    /\ WF_vars(\E l \in Lateness : PollWake(l))

----------------------------------------------------------------------------
(* The batch status lookup on its own, the service creating clips and       *)
(* moving them on meanwhile                                                 *)

(* getClips(clipIds) up to its await: refused without ids, else the request *)
(* is out                                                                   *)
GetClips(clipIds) ==
    /\ lookup.pc # "requesting"
    /\ lookup' = IF Len(clipIds) = 0
                 THEN [NoLookup EXCEPT !.pc = "threw",
                                       !.error = "Clip IDs are required for /clips endpoint"]
                 ELSE [NoLookup EXCEPT !.pc = "requesting", !.clipIds = clipIds]
    /\ UNCHANGED <<now, remote, NotLookup>>

(* makeRequest settles *)
GetClipsSettles(outcome) ==
    /\ lookup.pc = "requesting"
    /\ lookup' = getClips(lookup, outcome)
    /\ UNCHANGED <<now, remote, NotLookup>>

(* the service creates a clip or moves one on *)
ServiceStep(clip) ==
    /\ remote' = [remote EXCEPT ![clip.id] = clip]
    /\ UNCHANGED <<now, lookup, NotLookup>>

NextClips ==
    \/ \E ids \in ClipIdLists : GetClips(ids)
    \/ \E o \in ClipsResponses(lookup.clipIds) : GetClipsSettles(o)
    \/ \E c \in UNION { LaterClips(remote[i]) : i \in ClipIds } : ServiceStep(c)
    \/ /\ NextClipId(remote) \in ClipIds
       /\ ServiceStep(Clip(NextClipId(remote), "submitted", "none"))

SpecClips == Init /\ [][NextClips]_vars

----------------------------------------------------------------------------
(* generateMusic on its own *)

(* generateMusic(request) up to its await: rejected, or the request is out *)
GenerateMusic(request) ==
    /\ gen.pc # "requesting"
    /\ sent < MaxRequests
    /\ LET check == GenerateCheck(request)
       IN  IF check # "ok"
           THEN /\ gen' = [NoGen EXCEPT !.pc = "rejected", !.request = request,
                                        !.sentBefore = sent, !.error = check]
                /\ sent' = sent
           ELSE /\ gen' = [NoGen EXCEPT !.pc = "requesting", !.request = request,
                                        !.sentBefore = sent]
                /\ sent' = sent + 1
    /\ UNCHANGED <<now, NotGen>>

(* makeRequest returns or throws *)
GenerateResponse(outcome) ==
    /\ gen.pc = "requesting"
    /\ gen' = [gen EXCEPT !.pc = IF outcome.error = "none" THEN "returned" ELSE "threw",
                          !.error = outcome.error, !.clip = outcome.clip]
    /\ UNCHANGED <<now, sent, NotGen>>

NextGen ==
    \/ \E r \in Requests : GenerateMusic(r)
    \/ \E o \in GenerateOutcomes(gen.request) : GenerateResponse(o)

SpecGen == Init /\ [][NextGen]_vars

----------------------------------------------------------------------------
(* The music store driven through its interface *)

StoreMusic(deviceId, musicData) ==
    /\ musicCache' = storeMusic(musicCache, deviceId, musicData)
    /\ storeLast' = [kind |-> "store", deviceId |-> deviceId, entry |-> musicData,
                     evicted |-> CacheEvicted(musicCache, deviceId, musicData)]
    /\ UNCHANGED <<now, NotStore>>

ClearMusic(deviceId) ==
    /\ musicCache' = clearMusic(musicCache, deviceId)
    /\ storeLast' = [kind |-> "clear", deviceId |-> deviceId]
    /\ UNCHANGED <<now, NotStore>>

NextStore ==
    \/ \E d \in StoreDevices, e \in MusicEntries : StoreMusic(d, e)
    \/ \E d \in StoreDevices : ClearMusic(d)

SpecStore == Init /\ [][NextStore]_vars

----------------------------------------------------------------------------
(* The vision adapter on its own *)

(* generateMusicFromImage up to await axios.post *)
AnalyzeImage ==
    /\ vision.pc # "calling"
    /\ vision.calls < MaxAnalyses
    /\ vision' = [NoVision EXCEPT !.pc = "calling", !.calls = vision.calls + 1,
                                  !.startTime = now]
    /\ UNCHANGED <<now, NotVision>>

(* axios.post settles; the rest of the function runs *)
AnalyzeSettles(latency, outcome, rnd) ==
    /\ vision.pc = "calling"
    /\ now' = now + latency
    /\ vision' = [vision EXCEPT
                    !.pc = "done", !.outcome = outcome,
                    !.result = generateMusicFromImage(outcome, rnd,
                                                      now' - vision.startTime)]
    /\ UNCHANGED NotVision

NextVision ==
    \/ AnalyzeImage
    \/ \E l \in Latencies, o \in VisionOutcomes, r \in RandomIndices :
          AnalyzeSettles(l, o, r)

SpecVision == Init /\ [][NextVision]_vars

----------------------------------------------------------------------------
(* The buffer service driven through its interface *)

Thresholds == -1 .. 11

Tick ==
    /\ now < MaxTime
    /\ now' = now + 1
    /\ UNCHANGED <<buffer, pending, nAdds, had, last, NotBuf>>

(* addImage is called: it runs to its first await *)
AddStart(deviceId, input, options) ==
    /\ nAdds < MaxAdds
    /\ Cardinality(pending) < MaxPending
    /\ AddCall(deviceId, input, options) \notin pending
    /\ pending' = pending \cup {AddCall(deviceId, input, options)}
    /\ nAdds' = nAdds + 1
    /\ UNCHANGED <<now, buffer, had, last, NotBuf>>

(* the awaits of an addImage call are over: it throws, or it stores the     *)
(* record, maintains the size and returns the record                        *)
AddFinish(call) ==
    /\ call \in pending
    /\ pending' = pending \ {call}
    /\ IF AddThrows(call)
       THEN /\ last' = [kind |-> "addError", deviceId |-> call.deviceId]
            /\ UNCHANGED <<buffer, had>>
       ELSE /\ buffer' = AddToBuffer(buffer, AddRecord(call))
            /\ had' = had \cup {call.deviceId}
            /\ last' = [kind |-> "add", rec |-> AddRecord(call),
                        evicted |-> Recs(MapSet(buffer, AddRecord(call)))
                                      \ Recs(AddToBuffer(buffer, AddRecord(call)))]
    /\ UNCHANGED <<now, nAdds, NotBuf>>

ClearDevice(deviceId) ==
    /\ buffer' = clearDevice(buffer, deviceId)
    /\ last' = [kind |-> "clear", deviceId |-> deviceId,
                cleared |-> Len(buffer) - Len(clearDevice(buffer, deviceId))]
    /\ UNCHANGED <<now, pending, nAdds, had, NotBuf>>

(* detectSceneChange(deviceId), as its callers call it: with the default    *)
(* threshold                                                                *)
DetectSceneChange(deviceId, threshold, fails) ==
    /\ fails => Len(getRecentImages(buffer, deviceId, 2)) = 2
    /\ last' = [kind |-> "detect", deviceId |-> deviceId, fails |-> fails,
                changed |-> detectSceneChange(buffer, deviceId, threshold, fails)]
    /\ UNCHANGED <<now, buffer, pending, nAdds, had, NotBuf>>

NextBuffer ==
    \/ Tick
    \/ \E d \in Devices, a \in AddInputs : AddStart(d, a[1], a[2])
    \/ \E c \in pending : AddFinish(c)
    \/ \E d \in Devices : ClearDevice(d)
    \/ \E d \in Devices, f \in BOOLEAN :
          DetectSceneChange(d, DefaultThreshold, f)

SpecBuffer == Init /\ [][NextBuffer]_vars

----------------------------------------------------------------------------
(* The comparison of the detector on its own: compareHistograms on two      *)
(* histograms, then the verdict at a threshold                              *)

(* compareHistograms on every pair of the inputs *)
HistSimTable ==
    [h1 \in HistInputs, h2 \in HistInputs |-> compareHistograms(h1, h2)]

(* const similarity = this.compareHistograms(currentHist, previousHist) *)
CompareHistograms(hist1, hist2) ==
    /\ last' = [kind |-> "compare", hist1 |-> hist1, hist2 |-> hist2,
                similarity |-> HistSimTable[hist1, hist2]]
    /\ UNCHANGED <<now, buffer, pending, nAdds, had, NotBuf>>

(* const changed = similarity < (1 - threshold) *)
HasChanged(threshold) ==
    /\ last.kind = "compare"
    /\ last' = [kind |-> "changed", hist1 |-> last.hist1, hist2 |-> last.hist2,
                similarity |-> last.similarity, threshold |-> threshold,
                changed |-> Below(last.similarity, threshold)]
    /\ UNCHANGED <<now, buffer, pending, nAdds, had, NotBuf>>

NextHist ==
    \/ \E h1 \in HistInputs, h2 \in HistInputs : CompareHistograms(h1, h2)
    \/ \E t \in Thresholds : HasChanged(t)

SpecHist == Init /\ [][NextHist]_vars

----------------------------------------------------------------------------
(* POST /api/scene/analyze.  Each action is the handler from one await to   *)
(* the next.                                                                *)

Respond(req, code, kind) ==
    [req EXCEPT !.pc = "responded", !.call = NoAdd, !.recent = <<>>,
                !.response = [code |-> code, kind |-> kind]]

(* the request arrives: the two 400 checks, then addImage is called *)
HttpArrive(r, in) ==
    /\ http[r].pc = "free"
    /\ \A q \in 1 .. r - 1 : http[q].pc # "free"
    /\ http' = [http EXCEPT ![r] =
          IF ~in.hasImage \/ in.deviceId = ""
          THEN Respond([@ EXCEPT !.deviceId = in.deviceId], 400, "bad request")
          ELSE [@ EXCEPT !.pc = "adding", !.deviceId = in.deviceId,
                         !.call = AddCall(in.deviceId, in.image, TRUE)]]
    /\ UNCHANGED <<now, buffer, remote, musicCache, sent, sessions, sessionObjs,
                   processingQueue, frames, NotPipe>>

(* addImage settles: a warning on failure; else detectSceneChange is called *)
(* and, with fewer than two records, answers at once and the run begins     *)
HttpAddDone(r) ==
    /\ http[r].pc = "adding"
    /\ LET call == http[r].call
           rec == AddRecord(call)
           buf2 == AddToBuffer(buffer, rec)
           recent == getRecentImages(buf2, call.deviceId, 2)
       IN  IF AddThrows(call)
           THEN /\ http' = [http EXCEPT ![r] = Respond(@, 200, "warning")]
                /\ buffer' = buffer
           ELSE /\ buffer' = buf2
                /\ http' = [http EXCEPT ![r] =
                      IF Len(recent) < 2
                      THEN [@ EXCEPT !.pc = "running", !.call = NoAdd,
                                     !.imageId = rec.id, !.sceneChanged = "true",
                                     !.run = RunStart(now)]
                      ELSE [@ EXCEPT !.pc = "detecting", !.call = NoAdd,
                                     !.imageId = rec.id, !.recent = recent]]
    /\ UNCHANGED <<now, remote, musicCache, sent, sessions, sessionObjs,
                   processingQueue, frames, NotPipe>>

HttpDetectDone_RunsAnyway(r, fails) ==
    /\ http[r].pc = "detecting"
    /\ http' = [http EXCEPT ![r] =
          [@ EXCEPT !.pc = "running", !.recent = <<>>, !.run = RunStart(now),
                    !.detectFailed = fails,
                    !.sceneChanged =
                        IF detectSceneChange(http[r].recent, http[r].deviceId,
                                             DefaultThreshold, fails)
                        THEN "true" ELSE "false"]]
    /\ UNCHANGED <<now, buffer, remote, musicCache, sent, sessions, sessionObjs,
                   processingQueue, frames, NotPipe>>

(* detectSceneChange settles: unchanged is answered, changed begins the run *)
HttpDetectDone(r, fails) ==
    /\ http[r].pc = "detecting"
    /\ http' = [http EXCEPT ![r] =
          IF detectSceneChange(@.recent, @.deviceId, DefaultThreshold, fails)
          THEN [@ EXCEPT !.pc = "running", !.recent = <<>>, !.detectFailed = fails,
                         !.sceneChanged = "true", !.run = RunStart(now)]
          ELSE Respond([@ EXCEPT !.detectFailed = fails, !.sceneChanged = "false"],
                       200, "unchanged")]
    /\ UNCHANGED <<now, buffer, remote, musicCache, sent, sessions, sessionObjs,
                   processingQueue, frames, NotPipe>>

(* generateMusicFromImage settles and generateMusicWithTopic is called *)
HttpAnalyzed(r, outcome, rnd) ==
    /\ http[r].pc = "running"
    /\ http[r].run.pc = "analyzing"
    /\ LET claude == generateMusicFromImage(outcome, rnd, now - http[r].run.startTime)
           run == RunAnalyzed(http[r].run, claude, claude.makeInstrumental)
       IN  IF run.pc = "failed"
           THEN /\ http' = [http EXCEPT ![r] = Respond([@ EXCEPT !.run = run], 500, "failed")]
                /\ sent' = sent
           ELSE /\ sent < MaxRequests
                /\ http' = [http EXCEPT ![r].run = run]
                /\ sent' = sent + 1
    /\ UNCHANGED <<now, buffer, remote, musicCache, sessions, sessionObjs,
                   processingQueue, frames, NotPipe>>

(* the generate request settles and waitForAudioUrl(id, 60000) is called *)
HttpSubmitted(r, outcome) ==
    /\ http[r].pc = "running"
    /\ http[r].run.pc = "submitting"
    /\ IF outcome.error # "none"
       THEN /\ http' = [http EXCEPT ![r] =
                  Respond([@ EXCEPT !.run = RunFail(@, outcome.error)], 500, "failed")]
            /\ remote' = remote
       ELSE /\ remote' = [remote EXCEPT ![outcome.clip.id] = outcome.clip]
            /\ http' = [http EXCEPT ![r].run =
                  [@ EXCEPT !.pc = "waiting",
                            !.wait = WaitCall(outcome.clip.id, 60000, 2000, now)]]
    /\ UNCHANGED <<now, buffer, musicCache, sent, sessions, sessionObjs,
                   processingQueue, frames, NotPipe>>

HttpPolled_StoresAnyway(r, got, expired) ==
    /\ http[r].pc = "running"
    /\ http[r].run.pc = "waiting"
    /\ expired \/ http[r].run.wait.polls < MaxPolls
    /\ LET w == WaitResume(AudioPolled(http[r].run.wait, got), expired)
           req == [http[r] EXCEPT !.run.wait = w]
       IN  /\ musicCache' =
                 IF WaitDone(w)
                 THEN storeMusic(musicCache, req.deviceId,
                        [musicUrl |-> w.clip.audio_url, clipId |-> w.clipId,
                         imageId |-> req.imageId, timestamp |-> now])
                 ELSE musicCache
           /\ http' = [http EXCEPT ![r] =
                 IF w.pc = "returned"
                 THEN Respond([req EXCEPT !.run = RunEnd(@, "done")], 200, "success")
                 ELSE IF WaitDone(w)
                 THEN Respond([req EXCEPT !.run = RunFail(@, w.error)], 500, "failed")
                 ELSE req]
    /\ remote' = RemoteAfter(got)
    /\ UNCHANGED <<now, buffer, sent, sessions, sessionObjs,
                   processingQueue, frames, NotPipe>>

(* a poll of waitForAudioUrl settles; when the loop is over the entry is    *)
(* stored and the request answered, or the error is answered                *)
HttpPolled(r, got, expired) ==
    /\ http[r].pc = "running"
    /\ http[r].run.pc = "waiting"
    /\ expired \/ http[r].run.wait.polls < MaxPolls
    /\ LET w == WaitResume(AudioPolled(http[r].run.wait, got), expired)
           req == [http[r] EXCEPT !.run.wait = w]
       IN  IF w.pc = "returned"
           THEN /\ musicCache' = storeMusic(musicCache, req.deviceId,
                       [musicUrl |-> w.clip.audio_url, clipId |-> w.clip.id,
                        imageId |-> req.imageId, timestamp |-> now])
                /\ http' = [http EXCEPT ![r] =
                      Respond([req EXCEPT !.run = RunEnd(@, "done")], 200, "success")]
           ELSE /\ musicCache' = musicCache
                /\ http' = [http EXCEPT ![r] =
                      IF WaitDone(w)
                      THEN Respond([req EXCEPT !.run = RunFail(@, w.error)], 500, "failed")
                      ELSE req]
    /\ remote' = RemoteAfter(got)
    /\ UNCHANGED <<now, buffer, sent, sessions, sessionObjs,
                   processingQueue, frames, NotPipe>>

----------------------------------------------------------------------------
(* ImageStreamSocketServer.  handleStreamStart and handleStreamStop run to  *)
(* the end; handleImageFrame and processFrameAsync go from await to await.  *)

(* start-stream for a device with no session (with one, only an error is    *)
(* emitted)                                                                 *)
handleStreamStart(deviceId) ==
    /\ sessions[deviceId] = 0
    /\ \E i \in SessionIds :
          /\ sessionObjs[i] = NoSession
          /\ \A j \in 1 .. i - 1 : sessionObjs[j] # NoSession
          /\ sessionObjs' = [sessionObjs EXCEPT ![i] =
                [NoSession EXCEPT !.deviceId = deviceId, !.isActive = TRUE]]
          /\ sessions' = [sessions EXCEPT ![deviceId] = i]
    /\ UNCHANGED <<now, buffer, remote, musicCache, sent, http, processingQueue,
                   frames, NotPipe>>

(* stop-stream for a device with a session (without one, only an error is   *)
(* emitted)                                                                 *)
handleStreamStop(deviceId) ==
    /\ sessions[deviceId] # 0
    /\ sessionObjs' = [sessionObjs EXCEPT ![sessions[deviceId]].isActive = FALSE]
    /\ sessions' = [sessions EXCEPT ![deviceId] = 0]
    /\ processingQueue' = [processingQueue EXCEPT ![deviceId] = "absent"]
    /\ UNCHANGED <<now, buffer, remote, musicCache, sent, http, frames, NotPipe>>

(* image-frame arrives: refused without an active session, else the frame   *)
(* is counted and addImage is called                                        *)
FrameArrive(f, deviceId, image) ==
    /\ frames[f].pc = "free"
    /\ \A g \in 1 .. f - 1 : frames[g].pc # "free"
    /\ LET sid == sessions[deviceId]
       IN  IF sid = 0 \/ ~sessionObjs[sid].isActive
           THEN /\ frames' = [frames EXCEPT ![f] =
                      [@ EXCEPT !.pc = "refused", !.deviceId = deviceId]]
                /\ sessionObjs' = sessionObjs
           ELSE /\ sessionObjs' = [sessionObjs EXCEPT ![sid].frameCount = @ + 1]
                /\ frames' = [frames EXCEPT ![f] =
                      [@ EXCEPT !.pc = "adding", !.deviceId = deviceId, !.session = sid,
                                !.flagAtArrival = ~QueueFree(processingQueue, deviceId),
                                !.call = AddCall(deviceId, image, TRUE)]]
    /\ UNCHANGED <<now, buffer, remote, musicCache, sent, http, sessions,
                   processingQueue, NotPipe>>

(* the end of handleImageFrame once shouldProcessFrame has answered: the    *)
(* flag is tested and set, and processFrameAsync runs to its first await    *)
FrameDecide(frame, shouldProcess, queue) ==
    IF shouldProcess /\ QueueFree(queue, frame.deviceId)
    THEN [frame EXCEPT !.pc = "done", !.recent = <<>>, !.shouldProcess = shouldProcess,
                       !.run = RunStart(now)]
    ELSE [frame EXCEPT !.pc = "done", !.recent = <<>>, !.shouldProcess = shouldProcess]

QueueAfterDecide_NotSet(frame, shouldProcess, queue) == queue

QueueAfterDecide(frame, shouldProcess, queue) ==
    IF shouldProcess /\ QueueFree(queue, frame.deviceId)
    THEN [queue EXCEPT ![frame.deviceId] = "true"]
    ELSE queue

(* addImage settles: frame-error on failure; else shouldProcessFrame is     *)
(* called, which answers at once when the device has fewer than two records *)
FrameAddDone(f) ==
    /\ frames[f].pc = "adding"
    /\ LET call == frames[f].call
           rec == AddRecord(call)
           buf2 == AddToBuffer(buffer, rec)
           recent == getRecentImages(buf2, call.deviceId, 2)
           gate == FrameGate(sessionObjs[frames[f].session], now)
           added == [frames[f] EXCEPT !.call = NoAdd, !.imageId = rec.id, !.gate = gate]
       IN  IF AddThrows(call)
           THEN /\ frames' = [frames EXCEPT ![f] = [@ EXCEPT !.pc = "error", !.call = NoAdd]]
                /\ UNCHANGED <<buffer, processingQueue>>
           ELSE /\ buffer' = buf2
                /\ IF Len(recent) < 2
                   THEN /\ frames' = [frames EXCEPT ![f] =
                              FrameDecide(added, gate, processingQueue)]
                        /\ processingQueue' = QueueAfterDecide(added, gate, processingQueue)
                   ELSE /\ frames' = [frames EXCEPT ![f] =
                              [added EXCEPT !.pc = "detecting", !.recent = recent]]
                        /\ processingQueue' = processingQueue
    /\ UNCHANGED <<now, remote, musicCache, sent, http, sessions, sessionObjs, NotPipe>>

(* detectSceneChange settles inside shouldProcessFrame *)
FrameDetectDone(f, fails) ==
    /\ frames[f].pc = "detecting"
    /\ LET frame == frames[f]
           shouldProcess ==
               frame.gate /\ detectSceneChange(frame.recent, frame.deviceId,
                                               DefaultThreshold, fails)
       IN  /\ frames' = [frames EXCEPT ![f] = FrameDecide(frame, shouldProcess, processingQueue)]
           /\ processingQueue' = QueueAfterDecide(frame, shouldProcess, processingQueue)
    /\ UNCHANGED <<now, buffer, remote, musicCache, sent, http, sessions,
                   sessionObjs, NotPipe>>

FinallyQueue_Kept(frame) == processingQueue

(* .finally(...) of processFrameAsync: the flag is cleared and the session  *)
(* object the handler holds is stamped                                      *)
FinallyQueue(frame) == [processingQueue EXCEPT ![frame.deviceId] = "false"]

FinallySessions(frame) ==
    [sessionObjs EXCEPT ![frame.session].lastProcessed = [set |-> TRUE, at |-> now]]

(* generateMusicFromImage settles and generateMusicWithTopic is called; a   *)
(* refused request ends processFrameAsync                                   *)
FrameAnalyzed(f, outcome, rnd) ==
    /\ frames[f].run.pc = "analyzing"
    /\ LET claude == generateMusicFromImage(outcome, rnd, now - frames[f].run.startTime)
           run == RunAnalyzed(frames[f].run, claude, FALSE)
       IN  /\ frames' = [frames EXCEPT ![f].run = run]
           /\ IF run.pc = "failed"
              THEN /\ sent' = sent
                   /\ processingQueue' = FinallyQueue(frames[f])
                   /\ sessionObjs' = FinallySessions(frames[f])
              ELSE /\ sent < MaxRequests
                   /\ sent' = sent + 1
                   /\ UNCHANGED <<processingQueue, sessionObjs>>
    /\ UNCHANGED <<now, buffer, remote, musicCache, http, sessions, NotPipe>>

(* the generate request settles; waitForCompletion(id, 180000) is called    *)
(* and not awaited, so processFrameAsync ends either way                    *)
FrameSubmitted(f, outcome) ==
    /\ frames[f].run.pc = "submitting"
    /\ IF outcome.error # "none"
       THEN /\ frames' = [frames EXCEPT ![f].run = RunFail(@, outcome.error)]
            /\ remote' = remote
       ELSE /\ remote' = [remote EXCEPT ![outcome.clip.id] = outcome.clip]
            /\ frames' = [frames EXCEPT ![f].run =
                  [@ EXCEPT !.pc = "polling",
                            !.wait = WaitCall(outcome.clip.id, 180000, 2000, now)]]
    /\ processingQueue' = FinallyQueue(frames[f])
    /\ sessionObjs' = FinallySessions(frames[f])
    /\ UNCHANGED <<now, buffer, musicCache, sent, http, sessions, NotPipe>>

(* a poll of the detached waitForCompletion settles: music-ready or         *)
(* music-error is emitted when the loop is over                             *)
FramePolled(f, got, expired) ==
    /\ frames[f].run.pc = "polling"
    /\ expired \/ frames[f].run.wait.polls < MaxFramePolls
    /\ LET w == WaitResume(WaitPolled(frames[f].run.wait, got), expired)
       IN  frames' = [frames EXCEPT ![f].run =
              IF w.pc = "returned" THEN RunEnd(@, "notified")
              ELSE IF WaitDone(w) THEN RunEnd([@ EXCEPT !.error = w.error], "music error")
              ELSE [@ EXCEPT !.wait = w]]
    /\ remote' = RemoteAfter(got)
    /\ UNCHANGED <<now, buffer, musicCache, sent, http, sessions,
                   sessionObjs, processingQueue, NotPipe>>

----------------------------------------------------------------------------
(* The glasses' capture loop, one per session *)

(* onSession calls photoCaptureLoop, which runs to await requestPhoto() *)
onSession(s) ==
    /\ capture[s].pc = "none"
    /\ capture' = [capture EXCEPT ![s] = [@ EXCEPT !.pc = "requesting", !.photos = 1]]
    /\ UNCHANGED <<now, latestMusicData, stream, NotGlasses>>

(* requestPhoto settles: a rejection ends the loop in its catch; with a     *)
(* photo uploadPhotoToAPI is called and runs to await fetch(...)            *)
PhotoSettles(s, ok) ==
    /\ capture[s].pc = "requesting"
    /\ capture' = [capture EXCEPT ![s].pc = IF ok THEN "fetching" ELSE "ended"]
    /\ UNCHANGED <<now, latestMusicData, stream, NotGlasses>>

(* fetch settles: a rejection is caught and the upload returns; else the    *)
(* body is read, as text when the status is not ok, as JSON when it is      *)
FetchSettles(s, outcome) ==
    /\ capture[s].pc = "fetching"
    /\ capture' = [capture EXCEPT ![s] =
          CASE outcome = "rejected" -> UploadReturned(@, "failed", now)
            [] outcome = "not ok"   -> [@ EXCEPT !.pc = "reading text"]
            [] OTHER                -> [@ EXCEPT !.pc = "reading json"]]
    /\ UNCHANGED <<now, latestMusicData, stream, NotGlasses>>

(* response.text() settles (read or not): the error is thrown and caught *)
TextSettles(s) ==
    /\ capture[s].pc = "reading text"
    /\ capture' = [capture EXCEPT ![s] = UploadReturned(@, "failed", now)]
    /\ UNCHANGED <<now, latestMusicData, stream, NotGlasses>>

(* response.json() settles: a result with a music URL is kept *)
JsonSettles(s, body) ==
    /\ capture[s].pc = "reading json"
    /\ latestMusicData' = IF body.success /\ body.musicUrl # "none"
                          THEN [musicUrl |-> body.musicUrl]
                          ELSE latestMusicData
    /\ capture' = [capture EXCEPT ![s] = UploadReturned(@, "ok", now)]
    /\ UNCHANGED <<now, stream, NotGlasses>>

(* the timer fires, no earlier than it was set for: photoCaptureLoop again *)
CaptureTimerFires(s, late) ==
    /\ capture[s].pc = "scheduled"
    /\ capture[s].photos < MaxPhotos
    /\ now' = Max(now, capture[s].dueAt + late)
    /\ capture' = [capture EXCEPT ![s] = [@ EXCEPT !.pc = "requesting", !.photos = @ + 1]]
    /\ UNCHANGED <<latestMusicData, stream, NotGlasses>>

NextCapture ==
    \/ \E s \in CaptureSessions : onSession(s)
    \/ \E s \in CaptureSessions, ok \in BOOLEAN : PhotoSettles(s, ok)
    \/ \E s \in CaptureSessions, o \in FetchOutcomes : FetchSettles(s, o)
    \/ \E s \in CaptureSessions : TextSettles(s)
    \/ \E s \in CaptureSessions, b \in JsonBodies : JsonSettles(s, b)
    \/ \E s \in CaptureSessions, l \in Lateness : CaptureTimerFires(s, l)

SpecCapture == Init /\ [][NextCapture]_vars

----------------------------------------------------------------------------
(* The glasses' managed stream, one per user *)

(* onSession: isStreamActive.set(userId, false), the handlers are set up *)
StreamSession(u) ==
    /\ ~stream[u].connected
    /\ stream[u].sessions = 0
    /\ stream' = [stream EXCEPT ![u] =
          [@ EXCEPT !.connected = TRUE, !.sessions = 1, !.isStreamActive = "false"]]
    /\ UNCHANGED <<now, capture, latestMusicData, NotGlasses>>

(* a short button press: toggleStream calls stopStream or startStream,      *)
(* which runs to its await                                                  *)
toggleStream(u) ==
    /\ stream[u].connected
    /\ IF stream[u].isStreamActive = "true"
       THEN /\ stream[u].stops < MaxStops
            /\ stream' = [stream EXCEPT ![u] =
                  [@ EXCEPT !.stopping = @ + 1, !.stops = @ + 1]]
       ELSE /\ stream[u].starts < MaxStarts
            /\ stream' = [stream EXCEPT ![u] =
                  [@ EXCEPT !.starting = @ + 1, !.starts = @ + 1]]
    /\ UNCHANGED <<now, capture, latestMusicData, NotGlasses>>

(* startManagedStream settles: on success the stream is active and          *)
(* startFrameExtraction sets the 10 s timeout                               *)
StartSettles(u, ok) ==
    /\ stream[u].starting > 0
    /\ stream' = [stream EXCEPT ![u] =
          IF ok
          THEN LET id == CHOOSE i \in TimerIds :
                            /\ @.timers[i] = "none"
                            /\ \A j \in 1 .. i - 1 : @.timers[j] # "none"
               IN  [@ EXCEPT !.starting = @ - 1, !.isStreamActive = "true",
                             !.timers[id] = "timeout"]
          ELSE [@ EXCEPT !.starting = @ - 1]]
    /\ UNCHANGED <<now, capture, latestMusicData, NotGlasses>>

(* stopManagedStream settles: on success the stream is inactive and         *)
(* stopFrameExtraction is called                                            *)
StopSettles(u, ok) ==
    /\ stream[u].stopping > 0
    /\ stream' = [stream EXCEPT ![u] =
          IF ok
          THEN stopFrameExtraction([@ EXCEPT !.stopping = @ - 1,
                                              !.isStreamActive = "false"])
          ELSE [@ EXCEPT !.stopping = @ - 1]]
    /\ UNCHANGED <<now, capture, latestMusicData, NotGlasses>>

(* handleStreamStatus with status 'stopped' *)
StatusStopped(u) ==
    /\ stream[u].connected
    /\ stream[u].isStreamActive = "true"
    /\ stream' = [stream EXCEPT ![u].isStreamActive = "false"]
    /\ UNCHANGED <<now, capture, latestMusicData, NotGlasses>>

(* the 10 s timeout fires: extractFrame() at once, then setInterval, whose  *)
(* handle replaces the one the map holds                                    *)
StabiliseFires(u, id) ==
    /\ stream[u].timers[id] = "timeout"
    /\ stream' = [stream EXCEPT ![u] =
          [extractFrame(@) EXCEPT !.timers[id] = "interval", !.mapped = id]]
    /\ UNCHANGED <<now, capture, latestMusicData, NotGlasses>>

(* an interval fires: extractFrame() *)
IntervalFires(u, id) ==
    /\ stream[u].timers[id] = "interval"
    /\ stream[u].requests < MaxExtracts
    /\ stream' = [stream EXCEPT ![u] = extractFrame(@)]
    /\ UNCHANGED <<now, capture, latestMusicData, NotGlasses>>

(* onDisconnected: cleanupUserState *)
cleanupUserState(u) ==
    /\ stream[u].connected
    /\ stream' = [stream EXCEPT ![u] =
          [stopFrameExtraction(@) EXCEPT !.connected = FALSE,
                                         !.isStreamActive = "absent"]]
    /\ UNCHANGED <<now, capture, latestMusicData, NotGlasses>>

NextStream ==
    \/ \E u \in Users : StreamSession(u)
    \/ \E u \in Users : toggleStream(u)
    \/ \E u \in Users, ok \in BOOLEAN : StartSettles(u, ok)
    \/ \E u \in Users, ok \in BOOLEAN : StopSettles(u, ok)
    \/ \E u \in Users : StatusStopped(u)
    \/ \E u \in Users, i \in TimerIds : StabiliseFires(u, i)
    \/ \E u \in Users, i \in TimerIds : IntervalFires(u, i)
    \/ \E u \in Users : cleanupUserState(u)

SpecStream == Init /\ [][NextStream]_vars

----------------------------------------------------------------------------
(* The backend under HTTP uploads (Spec) and under socket streams           *)
(* (SpecSocket), each over the shared services                              *)

Next ==
    \/ Tick
    \/ \E r \in HttpIds, in \in HttpInputs : HttpArrive(r, in)
    \/ \E r \in HttpIds : HttpAddDone(r)
    \/ \E r \in HttpIds, fails \in BOOLEAN : HttpDetectDone(r, fails)
    \/ \E r \in HttpIds, o \in RunVisionOutcomes, rnd \in RunRandomIndices : HttpAnalyzed(r, o, rnd)
    \/ \E r \in HttpIds : \E o \in GenerateOutcomes(http[r].run) : HttpSubmitted(r, o)
    \/ \E r \in HttpIds, expired \in BOOLEAN :
          \E got \in RunClipOutcomes(http[r].run.wait.clipId) : HttpPolled(r, got, expired)

Spec == Init /\ [][Next]_vars

NextSocket ==
    \/ Tick
    \/ \E d \in Devices : handleStreamStart(d)
    \/ \E d \in Devices : handleStreamStop(d)
    \/ \E f \in FrameIds, d \in Devices, p \in Payloads : FrameArrive(f, d, p)
    \/ \E f \in FrameIds : FrameAddDone(f)
    \/ \E f \in FrameIds, fails \in BOOLEAN : FrameDetectDone(f, fails)
    \/ \E f \in FrameIds, o \in RunVisionOutcomes, rnd \in RunRandomIndices : FrameAnalyzed(f, o, rnd)
    \/ \E f \in FrameIds : \E o \in GenerateOutcomes(frames[f].run) : FrameSubmitted(f, o)
    \/ \E f \in FrameIds, expired \in BOOLEAN :
          \E got \in RunClipOutcomes(frames[f].run.wait.clipId) : FramePolled(f, got, expired)

SpecSocket == Init /\ [][NextSocket]_vars

(* the socket server with one device streaming, where the requests          *)
(* processFrameAsync awaits settle                                          *)
LiveDevices == {"d1"}

NextSocketLive ==
    \/ \E d \in LiveDevices : handleStreamStart(d)
    \/ \E d \in LiveDevices : handleStreamStop(d)
    \/ \E f \in FrameIds, d \in LiveDevices, p \in Payloads : FrameArrive(f, d, p)
    \/ \E f \in FrameIds : FrameAddDone(f)
    \/ \E f \in FrameIds, fails \in BOOLEAN : FrameDetectDone(f, fails)
    \/ \E f \in FrameIds, o \in RunVisionOutcomes, rnd \in RunRandomIndices : FrameAnalyzed(f, o, rnd)
    \/ \E f \in FrameIds : \E o \in GenerateOutcomes(frames[f].run) : FrameSubmitted(f, o)
    \/ \E f \in FrameIds, expired \in BOOLEAN :
          \E got \in RunClipOutcomes(frames[f].run.wait.clipId) : FramePolled(f, got, expired)

SpecSocketLive ==
    /\ Init /\ [][NextSocketLive]_vars
    /\ \A f \in FrameIds :
          /\ WF_vars(\E o \in RunVisionOutcomes, rnd \in RunRandomIndices :
                        FrameAnalyzed(f, o, rnd))
          /\ WF_vars(\E o \in GenerateOutcomes(frames[f].run) : FrameSubmitted(f, o))

----------------------------------------------------------------------------
(* Properties of the buffer service (SpecBuffer) *)

CountOf(deviceId) == Cardinality({ i \in 1 .. Len(buffer) : buffer[i].deviceId = deviceId })

(* C2, as stated: after every add the records evicted are the oldest by     *)
(* timestamp, the count is back within the bound, and the record just added *)
(* is still retrievable from the buffer.                                    *)
C2_JustAddedRetrievable ==
    last.kind = "add" =>
        /\ Len(buffer) <= maxBufferSize
        /\ \A e \in last.evicted : \A r \in Recs(buffer) : e.timestamp <= r.timestamp
        /\ last.rec \in Recs(buffer)

(* C2, amended: an add that pushes the record count above the bound removes *)
(* exactly the oldest-by-timestamp records until the count equals the       *)
(* bound, and nothing else changes; what is retained are the newest records *)
(* by timestamp, and the record just added is among them unless its own     *)
(* timestamp is older than that of every record retained.                   *)
C2_EvictsOldestByTimestamp ==
    [][ (last'.kind = "add" /\ pending' # pending) =>
          LET rec  == last'.rec
              pre  == { r \in Recs(buffer) : r.id # rec.id } \cup {rec}
              post == Recs(buffer')
              gone == pre \ post
          IN  /\ post \subseteq pre
              /\ Cardinality(post) = Min(Cardinality(pre), maxBufferSize)
              /\ \A e \in gone : \A r \in post : e.timestamp <= r.timestamp
              /\ rec \in gone => \A r \in post : rec.timestamp < r.timestamp
      ]_vars

(* C2 witness: an add pushed the count above the bound and an older record  *)
(* was evicted for it.                                                      *)
C2_Witness ==
    /\ last.kind = "add"
    /\ last.evicted # {}
    /\ last.rec \in Recs(buffer)
    /\ Len(buffer) = maxBufferSize

(* C5: for a device with fewer than two records in the buffer the detector  *)
(* answers "changed", for every threshold, and whether or not sharp would   *)
(* fail.                                                                    *)
C5_FewerThanTwoIsChanged ==
    /\ \A d \in Devices :
          CountOf(d) < 2 =>
              \A t \in Thresholds : \A f \in BOOLEAN :
                  detectSceneChange(buffer, d, t, f) = TRUE
    /\ (last.kind = "detect" /\ CountOf(last.deviceId) < 2) => last.changed = TRUE

(* C5 witness: the detector was asked about a device whose records were all *)
(* cleared or evicted.                                                      *)
C5_Witness ==
    /\ last.kind = "detect"
    /\ last.deviceId \in had
    /\ CountOf(last.deviceId) = 0
    /\ last.changed = TRUE

(* C6: when the two records the detector compares for a device hold         *)
(* byte-identical buffers, the similarity it computes is 1 and it answers   *)
(* "unchanged" for every threshold strictly between 0 and 1.                *)
C6_IdenticalIsUnchanged ==
    \A d \in Devices :
        LET recent == getRecentImages(buffer, d, 2)
        IN  (Len(recent) = 2 /\ recent[1].buffer = recent[2].buffer) =>
              /\ Similarity(recent[1].buffer, recent[2].buffer)[1]
                   = Similarity(recent[1].buffer, recent[2].buffer)[2]
              /\ \A t \in 1 .. 9 : detectSceneChange(buffer, d, t, FALSE) = FALSE
              /\ (last.kind = "detect" /\ last.deviceId = d /\ ~last.fails)
                     => last.changed = FALSE

(* C6 witness: the detector compared two byte-identical records that came   *)
(* from two different uploads and answered "unchanged".                     *)
C6_Witness ==
    /\ last.kind = "detect"
    /\ ~last.fails
    /\ last.changed = FALSE
    /\ LET recent == getRecentImages(buffer, last.deviceId, 2)
       IN  /\ Len(recent) = 2
           /\ recent[1].buffer = recent[2].buffer
           /\ recent[1].id # recent[2].id

(* C9, as stated: the hash a record carries is the hash of the buffer the   *)
(* record holds, so records with equal buffers carry equal hashes.          *)
C9_HashOfStoredBuffer ==
    /\ \A r \in Recs(buffer) : r.hash = generateImageHash(r.buffer)
    /\ \A r1 \in Recs(buffer) : \A r2 \in Recs(buffer) :
          r1.buffer = r2.buffer => r1.hash = r2.hash

(* C10: the record count over all devices never exceeds the bound, and the  *)
(* records an add evicts are the globally oldest, whichever device owns     *)
(* them.                                                                    *)
C10_GlobalCap ==
    /\ Len(buffer) <= maxBufferSize
    /\ last.kind = "add" =>
          \A e \in last.evicted : \A r \in Recs(buffer) : e.timestamp <= r.timestamp

(* C10 witness: an add by one device evicted the last record of another     *)
(* device, which is left with fewer than two records.                       *)
C10_Witness ==
    /\ last.kind = "add"
    /\ \E e \in last.evicted :
          /\ e.deviceId # last.rec.deviceId
          /\ CountOf(e.deviceId) = 0
          /\ CountOf(last.rec.deviceId) = maxBufferSize

(* C24: clearDevice(d) leaves no record of d and leaves the records of     *)
(* every other device as they were, in their order; clearing d again        *)
(* changes nothing, and clearing a device that has no records leaves the    *)
(* buffer as it is.                                                         *)
C24_ClearRemovesOnlyThatDevice ==
    [][\A d \in Devices :
          ClearDevice(d) =>
              /\ OfDevice(buffer', d) = <<>>
              /\ \A e \in Devices \ {d} : OfDevice(buffer', e) = OfDevice(buffer, e)
              /\ Len(buffer') = Len(buffer) - CountOf(d)
              /\ last'.cleared = CountOf(d)
              /\ clearDevice(buffer', d) = buffer'
              /\ CountOf(d) = 0 => buffer' = buffer
      ]_vars

(* C24 witness: a clear removed the records of a device while the other    *)
(* device keeps one.                                                        *)
C24_Witness ==
    /\ last.kind = "clear"
    /\ last.cleared > 0
    /\ CountOf(last.deviceId) = 0
    /\ \E e \in Devices \ {last.deviceId} : CountOf(e) > 0

(* the limits getRecentImages is asked with *)
Limits == 0 .. 3

(* C25: getRecentImages(d, limit) holds only records of d, at most limit of *)
(* them, no record before a newer one, and the record added last for d is   *)
(* its first, also when another record of d carries the same timestamp: the *)
(* detector's `current` is the record added last.                           *)
C25_RecentNewestFirst ==
    \A d \in Devices : \A limit \in Limits :
        LET recent == getRecentImages(buffer, d, limit)
        IN  /\ Len(recent) <= limit
            /\ \A i \in 1 .. Len(recent) :
                  recent[i].deviceId = d /\ recent[i] \in Recs(buffer)
            /\ \A i, j \in 1 .. Len(recent) :
                  i < j => recent[i].timestamp >= recent[j].timestamp
            /\ (/\ last.kind = "add" /\ last.rec.deviceId = d
                 /\ last.rec \in Recs(buffer) /\ limit >= 1) =>
                  recent[1] = last.rec

----------------------------------------------------------------------------
(* Properties of the detector's comparison (SpecHist) *)

RECURSIVE SumOver(_, _)
SumOver(S, f) ==
    IF S = {} THEN 0
    ELSE LET b == CHOOSE x \in S : TRUE IN f[b] + SumOver(S \ {b}, f)

(* the buckets either histogram has a count in *)
Support(h1, h2) == { b \in Buckets : h1[b] > 0 \/ h2[b] > 0 }

(* C22: the similarity of two histograms is the sum of the per-bucket       *)
(* minima over the sum of the per-bucket maxima, and 0 when both are        *)
(* all-zero; it is the same with the arguments swapped and lies in [0, 1].  *)
(* The verdict is "changed" exactly when the similarity is below 1 minus    *)
(* the threshold: with 0.3, exactly when it is below 7/10; with any         *)
(* threshold, whenever the fractions differ, and at equality as the doubles *)
(* similarity and 1 - threshold compare.                                    *)
C22_SimilarityIsIntersectionOverUnion ==
    last.kind \in {"compare", "changed"} =>
        LET h1 == last.hist1
            h2 == last.hist2
            sim == last.similarity
            S == Support(h1, h2)
            mins == SumOver(S, [b \in S |-> Min(h1[b], h2[b])])
            maxs == SumOver(S, [b \in S |-> Max(h1[b], h2[b])])
        IN  /\ S # {} => sim[1] = mins /\ sim[2] = maxs
            /\ S = {} => sim[1] = 0
            /\ sim = compareHistograms(h2, h1)
            /\ sim[2] > 0 /\ 0 <= sim[1] /\ sim[1] <= sim[2]
            /\ last.kind = "changed" =>
                  LET t == last.threshold
                  IN  /\ t = DefaultThreshold =>
                            (last.changed <=> sim[1] * 10 < sim[2] * 7)
                      /\ sim[1] * 10 < sim[2] * (10 - t) => last.changed
                      /\ sim[1] * 10 > sim[2] * (10 - t) => ~last.changed
                      /\ sim[1] * 10 = sim[2] * (10 - t) =>
                            (last.changed <=> t \in RoundedUp)

(* C22 witness: a histogram with 7 counts and one with 10, all in bucket    *)
(* 255, have similarity 7/10, which at the default threshold is not below   *)
(* 0.7: the verdict is "unchanged".                                         *)
C22_Witness ==
    /\ last.kind = "changed"
    /\ last.threshold = DefaultThreshold
    /\ last.hist1[255] = 7 /\ last.hist2[255] = 10
    /\ last.similarity = <<7, 10>>
    /\ ~last.changed

----------------------------------------------------------------------------
(* Properties of the completion poll loop (SpecWait) *)

(* C3: a poll that observes `complete` makes the call return that clip; a   *)
(* call all of whose polls observed `generating` ends in the timeout error, *)
(* and only once the elapsed time has reached timeoutMs; a clip is never    *)
(* returned with a status other than `complete`.                            *)
C3_ReturnsCompleteOrTimesOut ==
    /\ "complete" \in wait.observed =>
          /\ wait.pc = "returned"
          /\ wait.clip = Clip(wait.clipId, "complete", "url")
    /\ wait.pc = "returned" => wait.clip.status = "complete"
    /\ (WaitDone(wait) /\ wait.observed \subseteq {"generating"}) =>
          /\ wait.pc = "timeout"
          /\ now - wait.startTime >= wait.timeoutMs
    /\ wait.pc = "polling" => wait.observed \cap {"complete", "error"} = {}

(* C3 witness: poll interval 10, timeout 50, every poll observes            *)
(* `generating`: five polls, then the timeout error at 50 ms.               *)
C3_Witness ==
    /\ wait.pc = "timeout"
    /\ wait.timeoutMs = 50
    /\ wait.pollIntervalMs = 10
    /\ wait.observed = {"generating"}
    /\ wait.polls = 5
    /\ now - wait.startTime = 50

(* C12: once a poll of waitForCompletion has observed status `error`, the  *)
(* call has thrown `Generation failed` with the error message the service   *)
(* reported for the clip, and is not polling or sleeping any more.          *)
C12_ErrorStopsPolling ==
    /\ "error" \in wait.observed =>
          /\ wait.pc = "failed"
          /\ remote[wait.clipId].status = "error"
          /\ remote[wait.clipId].error_message # "none" =>
                wait.error = "Generation failed: " \o remote[wait.clipId].error_message
          /\ remote[wait.clipId].error_message = "none" =>
                wait.error = "Generation failed: Unknown error"
    /\ wait.pc = "failed" => "error" \in wait.observed

(* C12 witness: two polls saw the clip generating, the third saw it in      *)
(* error with a message, and the call threw with that message.              *)
C12_Witness ==
    /\ wait.pc = "failed"
    /\ wait.polls = 3
    /\ wait.observed = {"generating", "error"}
    /\ wait.error = "Generation failed: remote failure"

(* one step of the poll loop as C23 allows it *)
C23_Step ==
    /\ sent' = sent
    /\ WaitDone(wait) => wait' = wait
    /\ wait'.polls # wait.polls =>
          /\ wait'.polls = wait.polls + 1
          /\ wait'.pc = "polling"
          /\ (wait'.polls - 1) * wait'.pollIntervalMs < wait'.timeoutMs
          /\ (wait'.polls - 1) * wait'.pollIntervalMs <= now' - wait'.startTime

----------------------------------------------------------------------------
(* Properties of the batch status lookup (SpecClips) *)

(* C13: a getClips call that has returned holds a clip for every id it was  *)
(* asked for.                                                               *)
C13_NotFoundWhenAbsent ==
    lookup.pc = "returned" =>
        \A i \in 1 .. Len(lookup.clipIds) :
            \E j \in 1 .. Len(lookup.clips) : lookup.clips[j].id = lookup.clipIds[i]

----------------------------------------------------------------------------
(* Properties of the music store (SpecStore) *)

(* C4 as stated: right after storeMusic(D, e), getLatestMusic(D) is e with  *)
(* deviceId = D, whatever else the store holds.                             *)
C4_RoundTrip ==
    storeLast.kind = "store" =>
        getLatestMusic(musicCache, storeLast.deviceId) =
            WithDevice(storeLast.entry, storeLast.deviceId)

(* C4 amended: right after storeMusic(D, e), getLatestMusic(D) is e with    *)
(* deviceId = D, unless the store is left full of other devices' entries    *)
(* that all carry a later timestamp than e: then e was evicted by the call  *)
(* that stored it and getLatestMusic(D) is null.                            *)
C4_RoundTripUnlessOldest ==
    storeLast.kind = "store" =>
        LET got == getLatestMusic(musicCache, storeLast.deviceId)
        IN  \/ got = WithDevice(storeLast.entry, storeLast.deviceId)
            \/ /\ got = Null
               /\ Len(musicCache) = maxCacheSize
               /\ \A i \in 1 .. Len(musicCache) :
                     storeLast.entry.timestamp < musicCache[i].timestamp

(* C4 witness: an entry stored while the store is full of other devices'    *)
(* entries, one of them older, comes back with its device id.               *)
C4_Witness ==
    /\ storeLast.kind = "store"
    /\ Len(musicCache) = maxCacheSize
    /\ \E i \in 1 .. Len(musicCache) :
          /\ musicCache[i].deviceId # storeLast.deviceId
          /\ musicCache[i].timestamp > storeLast.entry.timestamp
    /\ getLatestMusic(musicCache, storeLast.deviceId) =
          WithDevice(storeLast.entry, storeLast.deviceId)

(* C11: the store never holds two entries of one device nor more than      *)
(* maxCacheSize entries; a storeMusic for a device leaves at most that one  *)
(* entry of the device (the new one), and what it evicts is evicted only    *)
(* from a store over the bound and is no newer than anything retained.      *)
C11_OneSlotPerDeviceOldestEvicted ==
    /\ \A i, j \in 1 .. Len(musicCache) :
          musicCache[i].deviceId = musicCache[j].deviceId => i = j
    /\ Len(musicCache) <= maxCacheSize
    /\ storeLast.kind = "store" =>
          /\ \A i \in 1 .. Len(musicCache) :
                musicCache[i].deviceId = storeLast.deviceId =>
                    musicCache[i] = WithDevice(storeLast.entry, storeLast.deviceId)
          /\ storeLast.evicted # {} => Len(musicCache) = maxCacheSize
          /\ \A e \in storeLast.evicted : \A i \in 1 .. Len(musicCache) :
                e.timestamp <= musicCache[i].timestamp

(* C11 witness: a storeMusic overwrote nothing, pushed the store over the   *)
(* bound and evicted another device's entry, older than the two retained.   *)
C11_Witness ==
    /\ storeLast.kind = "store"
    /\ Len(musicCache) = maxCacheSize
    /\ CacheHas(musicCache, storeLast.deviceId)
    /\ \E e \in storeLast.evicted :
          /\ e.deviceId # storeLast.deviceId
          /\ \A i \in 1 .. Len(musicCache) : e.timestamp < musicCache[i].timestamp

----------------------------------------------------------------------------
(* Properties of generateMusic (SpecGen) *)

(* C7: a call whose topic is longer than 500 characters or whose tags are   *)
(* longer than 100 ends in an error and sends no request; a call with both  *)
(* within the limits sends exactly one request.                             *)
C7_ValidatesBeforeSending ==
    gen.pc # "idle" =>
        LET tooLong == \/ gen.request.topic.given /\ gen.request.topic.len > 500
                       \/ gen.request.tags.given /\ gen.request.tags.len > 100
        IN  IF tooLong
            THEN /\ gen.pc = "rejected"
                 /\ gen.error \in {"Topic must be 500 characters or less",
                                   "Tags must be 100 characters or less"}
                 /\ sent = gen.sentBefore
            ELSE /\ gen.pc \in {"requesting", "returned", "threw"}
                 /\ sent = gen.sentBefore + 1

(* C7 witness: a call with 101 characters of tags and a topic within the    *)
(* limit is rejected after an earlier call has sent a request.              *)
C7_Witness ==
    /\ gen.pc = "rejected"
    /\ gen.request.tags = Str(101)
    /\ gen.request.topic = Str(500)
    /\ sent = 1

----------------------------------------------------------------------------
(* Properties of the vision adapter (SpecVision) *)

FallbackTuples ==
    { <<fallbacks[i].prompt.text, fallbacks[i].makeInstrumental,
        fallbacks[i].sceneDescription>> : i \in 1 .. Len(fallbacks) }

(* C8: generateMusicFromImage always returns a result; when the vision API  *)
(* call fails the result is one of the four fallback tuples with confidence *)
(* 0.1, and a result made from a response has confidence 0.85.              *)
C8_NeverThrowsFallsBack ==
    /\ Cardinality(FallbackTuples) = 4
    /\ vision.pc = "done" =>
          /\ vision.result.kind = "result"
          /\ vision.outcome.kind = "error" =>
                /\ <<vision.result.prompt.text, vision.result.makeInstrumental,
                     vision.result.sceneDescription>> \in FallbackTuples
                /\ vision.result.confidence = 10
          /\ (vision.outcome.kind = "ok" /\ vision.outcome.content # <<>>) =>
                vision.result.confidence = 85

(* C8 witness: the request fails with a network error and the second        *)
(* fallback comes back with confidence 0.1.                                 *)
C8_Witness ==
    /\ vision.pc = "done"
    /\ vision.outcome.kind = "error"
    /\ vision.outcome.error = "network error"
    /\ vision.result.kind = "result"
    /\ vision.result.prompt.text = "smooth jazz, relaxed, slow tempo, piano and light drums"
    /\ vision.result.confidence = 10

----------------------------------------------------------------------------
(* Properties of the orchestrators (Spec, SpecSocket) *)

(* the runs of a device that are between their start and their end: a       *)
(* route's run ends with its response, a frame's run when processFrameAsync *)
(* settles and the flag is cleared                                          *)
HttpRunsOf(deviceId) ==
    { r \in HttpIds : http[r].deviceId = deviceId /\ RunInFlight(http[r].run) }

FrameRunsOf(deviceId) ==
    { f \in FrameIds : frames[f].deviceId = deviceId /\ RunInFlight(frames[f].run) }

(* C1 as stated: at no time are two pipeline runs of one device in progress *)
(* together, so the images that arrive for a device while a run of it is in *)
(* flight lead to no second generation request.                             *)
C1_OneRunPerDevice ==
    \A d \in Devices :
        Cardinality(HttpRunsOf(d)) + Cardinality(FrameRunsOf(d)) <= 1

----------------------------------------------------------------------------
(* Properties of the HTTP route (Spec) *)

(* C14: a route whose audio wait goes on has seen no audio URL on its clip, *)
(* and every entry of the music store carries the audio URL of its clip as  *)
(* its music URL.                                                           *)
C14_ReturnsAtFirstAudioUrl ==
    /\ \A r \in HttpIds :
          http[r].run.pc = "waiting" =>
              remote[http[r].run.wait.clipId].audio_url = "none"
    /\ \A i \in 1 .. Len(musicCache) :
          /\ musicCache[i].musicUrl # "none"
          /\ musicCache[i].musicUrl = remote[musicCache[i].clipId].audio_url

(* C14 witness: the first poll saw the clip without an audio URL, the       *)
(* second saw it still generating but with one; the wait returned and the   *)
(* entry stored has that URL.                                               *)
C14_Witness ==
    \E r \in HttpIds :
        /\ http[r].response.kind = "success"
        /\ http[r].run.wait.polls = 2
        /\ \E i \in 1 .. Len(musicCache) :
              /\ musicCache[i].deviceId = http[r].deviceId
              /\ musicCache[i].imageId = http[r].imageId
              /\ remote[musicCache[i].clipId].status = "generating"
              /\ musicCache[i].musicUrl = "url"

----------------------------------------------------------------------------
(* Properties of the two orchestrators (Spec, SpecSocket) *)

(* the errors of the guards of generateMusic *)
ValidationErrors ==
    {"Topic must be 500 characters or less", "Tags must be 100 characters or less"}

(* the submit of a run is accepted by the guards, and goes out with the     *)
(* instrumental flag of the analysis                                        *)
SubmitFollowsAnalysis(run) ==
    /\ run.error \notin ValidationErrors
    /\ run.pc = "submitting" =>
          /\ GenerateCheck(SubmitRequest(run.claude.prompt)) = "ok"
          /\ run.make_instrumental = run.claude.makeInstrumental

(* C15: in the route and in frame processing alike, the request submitted   *)
(* after an analysis carries the instrumental flag of that analysis, and no *)
(* run ends because generateMusic's guards refused the request built from   *)
(* the analysis prompt.                                                     *)
C15_SubmitAcceptedWithAnalysisFlag ==
    /\ \A r \in HttpIds : SubmitFollowsAnalysis(http[r].run)
    /\ \A f \in FrameIds : SubmitFollowsAnalysis(frames[f].run)

(* the stages of a run, in the order the route goes through them *)
RunOrder(from, to) ==
    \/ from = "analyzing" /\ to \in {"submitting", "failed"}
    \/ from = "submitting" /\ to \in {"waiting", "failed"}
    \/ from = "waiting" /\ to \in {"waiting", "done", "failed"}

(* one step of the route as C16 allows it *)
C16_Step ==
    /\ \A r \in HttpIds :
          LET run == http[r].run
          IN  /\ http'[r].sceneChanged = "false" =>
                    /\ http'[r].response = [code |-> 200, kind |-> "unchanged"]
                    /\ http'[r].run = NoRun
              /\ http'[r].sceneChanged = "false" /\ http[r].sceneChanged = "none" =>
                    musicCache' = musicCache /\ sent' = sent /\ remote' = remote
              /\ run.pc = "none" /\ http'[r].run.pc # "none" =>
                    /\ http'[r].run.pc = "analyzing"
                    /\ http'[r].sceneChanged = "true"
              /\ run.pc # "none" /\ http'[r].run # run => RunOrder(run.pc, http'[r].run.pc)
    /\ sent' # sent =>
          \E r \in HttpIds : http[r].run.pc = "analyzing" /\ http'[r].run.pc = "submitting"
    /\ musicCache' # musicCache =>
          \E r \in HttpIds : http[r].run.pc = "waiting" /\ http'[r].run.pc = "done"

(* C16: a request whose image the detector finds unchanged is answered 200  *)
(* `unchanged` with no analysis, submit or store write; a run begins only   *)
(* on a `changed` verdict and goes analyze, submit, await, store, in that   *)
(* order.                                                                   *)
C16_UnchangedSkipsAdapters ==
    [][C16_Step]_vars

(* C16 witness: one request of a device ran the whole pipeline and stored   *)
(* its entry; a later request of the device with an unchanged scene was     *)
(* answered `unchanged`, with still one submit made and one entry stored.   *)
C16_Witness ==
    \E r, q \in HttpIds :
        /\ http[q].response.kind = "success"
        /\ http[r].response.kind = "unchanged"
        /\ http[r].sceneChanged = "false"
        /\ http[r].deviceId = http[q].deviceId
        /\ http[r].run = NoRun
        /\ sent = 1
        /\ Len(musicCache) = 1

(* C23, in the route: the request to /generate goes out in the one step in  *)
(* which a run passes from its analysis to its submit, a run passes that    *)
(* way once, and a run that has ended stays as it ended.                    *)
C23_OneSubmitPerRun ==
    [][/\ sent' # sent =>
             /\ sent' = sent + 1
             /\ Cardinality({ r \in HttpIds : /\ http[r].run.pc = "analyzing"
                                               /\ http'[r].run.pc = "submitting" }) = 1
        /\ \A r \in HttpIds :
             /\ http'[r].run.pc = "submitting" /\ http'[r].run # http[r].run =>
                    http[r].run.pc = "analyzing" /\ sent' = sent + 1
             /\ http[r].run.pc \in {"done", "failed"} => http'[r].run = http[r].run
       ]_vars

(* one step of the route as C17 allows it *)
C17_Step ==
    \A r \in HttpIds :
        /\ (http[r].pc = "adding" /\ ~http[r].call.input.dec /\ http'[r] # http[r]) =>
              /\ http'[r].pc = "responded"
              /\ http'[r].response = [code |-> 200, kind |-> "warning"]
              /\ http'[r].sceneChanged = "none"
              /\ http'[r].run = NoRun
              /\ buffer' = buffer
              /\ musicCache' = musicCache /\ sent' = sent /\ remote' = remote
        /\ http[r].response.kind = "warning" => http'[r] = http[r]

(* C17: when addImage fails on an undecodable image the route answers 200   *)
(* with a warning and is over: the image buffer is as it was, and neither   *)
(* the detector nor the analysis, the submit or the store is reached for    *)
(* that request.                                                            *)
C17_AddFailureIsWarning ==
    [][C17_Step]_vars

(* C17 witness: a request with an undecodable image was answered with the   *)
(* warning, and a later request of the same device went through the whole   *)
(* pipeline.                                                                *)
C17_Witness ==
    \E q, r \in HttpIds :
        /\ q < r
        /\ http[q].response = [code |-> 200, kind |-> "warning"]
        /\ http[r].deviceId = http[q].deviceId
        /\ http[r].response.kind = "success"
        /\ \E i \in 1 .. Len(musicCache) :
              musicCache[i].deviceId = http[r].deviceId /\ musicCache[i].imageId = http[r].imageId

(* what a failed audio wait throws *)
WaitErrors ==
    {"Timeout waiting for clip", "Generation failed: remote failure",
     "Generation failed: Unknown error", "request", "notFound"}

(* one step of the route as C18 allows it *)
C18_Step ==
    /\ \A r \in HttpIds :
          LET req == http[r]
          IN  /\ (req.run.pc = "waiting" /\ http'[r].run.pc = "failed") =>
                    /\ musicCache' = musicCache
                    /\ http'[r].response = [code |-> 500, kind |-> "failed"]
                    /\ http'[r].run.error \in WaitErrors
              /\ (req.run.pc = "waiting" /\ http'[r].run.pc = "done") =>
                    /\ http'[r].response = [code |-> 200, kind |-> "success"]
                    /\ getLatestMusic(musicCache', req.deviceId) =
                          [deviceId |-> req.deviceId,
                           musicUrl |-> remote'[req.run.wait.clipId].audio_url,
                           clipId |-> req.run.wait.clipId,
                           imageId |-> req.imageId, timestamp |-> now]
                    /\ Len(musicCache') =
                          Len(musicCache) + (IF CacheHas(musicCache, req.deviceId) THEN 0 ELSE 1)
    /\ musicCache' # musicCache =>
          \E r \in HttpIds : http[r].run.pc = "waiting" /\ http'[r].run.pc = "done"

(* C18: the route writes the music store only in the step in which its      *)
(* audio wait returns a clip, and then the device's entry is the new one;   *)
(* when the wait times out or throws, the route answers 500 with the error  *)
(* and the store is as it was.                                              *)
C18_StoreOnlyOnWaitSuccess ==
    [][C18_Step]_vars

(* C18 witness: a device has an entry from an earlier request; a later      *)
(* request of the device got as far as the audio wait, the service reported *)
(* the clip in error, the request was answered 500 and the earlier entry is *)
(* still the device's entry.                                                *)
C18_Witness ==
    \E q, r \in HttpIds :
        /\ q # r
        /\ http[q].response.kind = "success"
        /\ http[r].deviceId = http[q].deviceId
        /\ http[r].response = [code |-> 500, kind |-> "failed"]
        /\ http[r].run.error = "Generation failed: remote failure"
        /\ getLatestMusic(musicCache, http[r].deviceId) # Null
        /\ getLatestMusic(musicCache, http[r].deviceId).imageId = http[q].imageId
        /\ getLatestMusic(musicCache, http[r].deviceId).imageId # http[r].imageId

(* C21: a detectSceneChange in which a histogram cannot be computed answers *)
(* "changed", for every device with two records and every threshold; a      *)
(* request of the route whose detection failed has sceneChanged true, has   *)
(* begun its run and is never answered `unchanged`.                          *)
C21_DetectorFailsOpen ==
    /\ \A d \in Devices : \A t \in Thresholds :
          detectSceneChange(buffer, d, t, TRUE) = TRUE
    /\ \A r \in HttpIds :
          http[r].detectFailed =>
              /\ http[r].sceneChanged = "true"
              /\ http[r].run.pc # "none"
              /\ http[r].response.kind # "unchanged"

(* C21 witness: the device's two newest records hold the same picture, so a *)
(* detection that works would answer "unchanged"; the detection failed and  *)
(* the request is analysing.                                                *)
C21_Witness ==
    \E r \in HttpIds :
        /\ http[r].detectFailed
        /\ http[r].run.pc = "analyzing"
        /\ ~detectSceneChange(buffer, http[r].deviceId, DefaultThreshold, FALSE)

----------------------------------------------------------------------------
(* Properties of the socket server (SpecSocket) *)

(* C19: processFrameAsync is never in progress for a frame that arrived     *)
(* while the in-flight flag of its device was set while it is in progress   *)
(* for another frame of the device.                                         *)
C19_NoSecondRunWhileFlagSet ==
    \A f \in FrameIds :
        (frames[f].flagAtArrival /\ RunInFlight(frames[f].run)) =>
            \A g \in FrameIds \ {f} :
                frames[g].deviceId = frames[f].deviceId => ~RunInFlight(frames[g].run)

(* whether a session of the device has been stopped *)
Stopped(deviceId) ==
    \E i \in SessionIds :
        sessionObjs[i].deviceId = deviceId /\ ~sessionObjs[i].isActive

(* C26: while processFrameAsync is in progress for a frame whose session    *)
(* has been stopped, it is in progress for no other frame of the device;    *)
(* and when the device has no session, has had one stopped and has no       *)
(* processFrameAsync in progress, processingQueue has no entry for it.      *)
C26_StopKeepsMutualExclusion ==
    /\ \A f \in FrameIds :
          (RunInFlight(frames[f].run) /\ ~sessionObjs[frames[f].session].isActive) =>
              \A g \in FrameIds \ {f} :
                  frames[g].deviceId = frames[f].deviceId => ~RunInFlight(frames[g].run)
    /\ \A d \in Devices :
          (sessions[d] = 0 /\ Stopped(d) /\ FrameRunsOf(d) = {}) =>
              processingQueue[d] = "absent"

(* one step of the socket server as C27 allows it *)
C27_Step ==
    \A f \in FrameIds :
        /\ (RunInFlight(frames[f].run) /\ ~RunInFlight(frames'[f].run)) =>
              /\ frames'[f].run.pc \in {"failed", "polling"}
              /\ processingQueue'[frames[f].deviceId] = "false"
        /\ (~RunInFlight(frames[f].run) /\ RunInFlight(frames'[f].run)) =>
              processingQueue'[frames[f].deviceId] = "true"

(* C27: the step in which a frame's processFrameAsync ends, its submit      *)
(* refused, failed or returned, leaves the device's flag false, also when   *)
(* the clip is still to be awaited; and a flag that is up always comes      *)
(* down.                                                                    *)
C27_FlagEventuallyReleased ==
    /\ [][C27_Step]_vars
    /\ \A d \in Devices :
          (processingQueue[d] = "true") ~> (processingQueue[d] # "true")

(* C27 witness: in one session, a frame's run has submitted and its clip is *)
(* still awaited, the flag came down, and a later frame of the session has  *)
(* put it up again and is in its analysis.                                  *)
C27_Witness ==
    \E f, g \in FrameIds :
        /\ f # g
        /\ frames[f].run.pc = "polling"
        /\ frames[g].run.pc = "analyzing"
        /\ frames[f].deviceId = frames[g].deviceId
        /\ frames[f].session = frames[g].session
        /\ sessionObjs[frames[f].session].isActive
        /\ processingQueue[frames[g].deviceId] = "true"

C20_Step ==
    /\ \A f \in FrameIds :
          (frames[f].run.pc = "none" /\ frames'[f].run.pc = "analyzing") =>
              /\ frames[f].pc \in {"adding", "detecting"}
              /\ frames'[f].shouldProcess
              /\ QueueFree(processingQueue, frames[f].deviceId)
              /\ ~QueueFree(processingQueue', frames[f].deviceId)
    /\ \A f, g \in FrameIds :
          (/\ frames[f].run.pc = "none" /\ frames'[f].run.pc = "analyzing"
           /\ frames[g].run.pc = "none" /\ frames'[g].run.pc = "analyzing") => f = g
    /\ \A f \in FrameIds :
          (frames[f].pc # "done" /\ frames'[f].pc = "done" /\ frames'[f].run = NoRun) =>
              ~frames'[f].shouldProcess \/ ~QueueFree(processingQueue, frames[f].deviceId)

----------------------------------------------------------------------------
(* Properties of the glasses' capture loop (SpecCapture) *)

C28_Step ==
    \A s \in CaptureSessions :
        LET c == capture[s]
            d == capture'[s]
        IN  /\ d.photos # c.photos =>
                  /\ d.photos = c.photos + 1
                  /\ c.uploads = c.photos
                  /\ c.pc \in {"none", "scheduled"}
                  /\ c.pc = "scheduled" => now' >= c.returnedAt + CaptureDelayMs
            /\ d.uploads # c.uploads =>
                  /\ d.uploads = c.uploads + 1
                  /\ d.uploads = d.photos
                  /\ d.pc = "scheduled"
                  /\ d.dueAt = now' + CaptureDelayMs
            /\ (d.pc = "ended" /\ c.pc # "ended") => c.pc = "requesting"
            /\ c.pc = "ended" => d = c

----------------------------------------------------------------------------
(* Properties of the glasses' managed stream (SpecStream) *)

(* C29: whenever a user's stream is not active (stopped, or the session     *)
(* disconnected) none of that user's frame-extraction timers is left to     *)
(* fire, and no frame-extraction request was sent while the stream was not  *)
(* active.                                                                  *)
C29_NoExtractionAfterStop ==
    \A u \in Users :
        /\ stream[u].isStreamActive # "true" => LiveTimers(stream[u]) = {}
        /\ ~stream[u].sentInactive

----------------------------------------------------------------------------
(* Properties of the buffer's identifiers (SpecBuffer) *)

C30_Step ==
    \A call \in pending :
        (AddFinish(call) /\ ~AddThrows(call)) =>
            /\ ~HasId(buffer, AddRecord(call).id)
            /\ Len(buffer) < maxBufferSize => Len(buffer') = Len(buffer) + 1

(* C30: every add that succeeds stores its record under an identifier no    *)
(* record of the buffer has, and below the cap the number of records grows  *)
(* by exactly one.                                                          *)
C30_AddNeverOverwrites == [][C30_Step]_vars

====
